---- MODULE Spec2Model ----
(***************************************************************************)
(* Model of glbrush.js Picture (src/picture.js): the buffer stack, the     *)
(* merged-away buffers, the per-buffer event logs, undo / redo / remove of *)
(* events by session id, and the GPU memory accounting.                    *)
(*                                                                         *)
(* picture_buffer.js and picture_event.js are not part of the sources at   *)
(* hand; the PictureBuffer methods Picture calls are modelled from the     *)
(* specification and are marked as such in the model map.                  *)
(*                                                                         *)
(* Indices are JavaScript indices (0-based); At(s, i) reads s[i].          *)
(* A method of Picture is an operator from a picture record P to the       *)
(* picture record after the call; P.threw is set when the call ended in an *)
(* uncaught TypeError, with the partial effects made up to that point.     *)
(***************************************************************************)
EXTENDS Integers, Sequences, FiniteSets, TLC

\* ------------------------------------------------------------------ bounds
MaxBuffers == 3
MaxSessionEventId == 5
MaxEvents == 5
MaxSid == 1
\* events of one kind held by the logs at a time
MaxRemoves == 1
MaxMoves == 1
MaxMerges == 2
MaxBrushes == 1
\* events ever created in the runs with a binding memory budget
MaxMemEvents == 4
\* events ever created in the runs with two sessions
MaxUndoEvents == 4

\* ---------------------------------------------------------------- constants
\* bytes of one bitmap state of a buffer of one pixel (RGBA)
StateBytes == 4
\* compositing buffer of one pixel
CompositingBytes == 4
\* GLFloatRasterizer / GLFloatTexDataRasterizer, one pixel
RasterizerBytes == 16
\* a new buffer never gets more undo states than this
MaxNewBufferBudget == 5
\* PictureBuffer.undoStateInterval, scaled down with the log lengths
UndoStateInterval == 2

MemoryBudgets == {66, 400}

\* ------------------------------------------------------------------ helpers
Min(a, b) == IF a < b THEN a ELSE b
Max(a, b) == IF a > b THEN a ELSE b

At(s, i) == s[i + 1]

RECURSIVE GCD(_, _)
GCD(a, b) == IF b = 0 THEN a ELSE GCD(b, a % b)

\* Rational numbers <<n, d>>, d > 0, in lowest terms: JavaScript numbers hold
\* the fractional undo state budgets exactly enough for the comparisons made.
Abs(n) == IF n < 0 THEN -n ELSE n
RReduce(n, d, g) == <<n \div g, d \div g>>
RNorm(n, d) == IF n = 0 THEN <<0, 1>> ELSE RReduce(n, d, GCD(Abs(n), d))
RInt(i) == <<i, 1>>
RAdd(x, y) == RNorm(x[1] * y[2] + y[1] * x[2], x[2] * y[2])
RSub(x, y) == RNorm(x[1] * y[2] - y[1] * x[2], x[2] * y[2])
RMulInt(x, k) == RNorm(x[1] * k, x[2])
RDivInt(x, k) == RNorm(x[1], x[2] * k)
RLt(x, y) == x[1] * y[2] < y[1] * x[2]
RLe(x, y) == x[1] * y[2] <= y[1] * x[2]
RFloor(x) == x[1] \div x[2]
RIsInt(x) == x[2] = 1

\* Array.prototype.splice start index normalisation
NormStart(len, s) == IF s < 0 THEN Max(len + s, 0) ELSE Min(s, len)
\* a.splice(s, 1)
SpliceDel1(a, s) ==
    LET k == NormStart(Len(a), s) IN
    IF k >= Len(a) THEN a
    ELSE [i \in 1..(Len(a) - 1) |-> IF i <= k THEN a[i] ELSE a[i + 1]]
\* a.splice(s, 0, x)
SpliceIns(a, s, x) ==
    LET k == NormStart(Len(a), s) IN
    SubSeq(a, 1, k) \o <<x>> \o SubSeq(a, k + 1, Len(a))

\* ------------------------------------------------------------------- events
NoBuffer == -1
GenericTypes == {"brush"}
StackTypes == {"bufferAdd", "bufferRemove", "bufferMove", "bufferMerge"}

\* bufferId: the buffer added / removed / moved (movedId) / merged
\* (mergedBuffer.id); NoBuffer for events that name no buffer.
Event(type, sid, seid, undone, bufferId, fromIndex, toIndex) ==
    [eventType |-> type, sid |-> sid, sessionEventId |-> seid,
     undone |-> undone, bufferId |-> bufferId,
     fromIndex |-> fromIndex, toIndex |-> toIndex]

NoEvent == Event("none", -1, -1, FALSE, NoBuffer, -1, -1)

isBufferStackChange(e) == e.eventType \in StackTypes

\* --------------------------------------------------- PictureBuffer (buffer)
\* A buffer: its event log, undo state budget, freed flag, the buffer it
\* was merged to and the insertion point of insertEvent.
NewBuffer(createEvent) ==
    [events |-> <<createEvent>>,
     undoStateBudget |-> RInt(MaxNewBufferBudget),
     freed |-> createEvent.undone,
     mergedTo |-> NoBuffer,
     insertionPoint |-> 1]

\* PictureBuffer.eventIndexBySessionId
eventIndexBySessionId(b, sid, seid) ==
    LET hits == {i \in 0..(Len(b.events) - 1) :
                    At(b.events, i).sid = sid /\ At(b.events, i).sessionEventId = seid}
    IN IF hits = {} THEN -1 ELSE CHOOSE i \in hits : \A j \in hits : i <= j

\* PictureBuffer.findLatest: index of the event of the session with the
\* highest sessionEventId, -1 if none
BufferFindLatest(b, sid, canBeUndone) ==
    LET hits == {i \in 0..(Len(b.events) - 1) :
                    /\ At(b.events, i).sid = sid
                    /\ (canBeUndone \/ ~At(b.events, i).undone)}
    IN IF hits = {} THEN -1
       ELSE CHOOSE i \in hits : \A j \in hits :
                \/ At(b.events, i).sessionEventId > At(b.events, j).sessionEventId
                \/ (At(b.events, i).sessionEventId = At(b.events, j).sessionEventId /\ i >= j)

\* PictureBuffer.isRemoved reads events[0]: a TypeError on an empty log
isRemovedThrows(b) == Len(b.events) = 0
isRemoved(b) ==
    \/ At(b.events, 0).undone
    \/ \E i \in 0..(Len(b.events) - 1) :
          At(b.events, i).eventType = "bufferRemove" /\ ~At(b.events, i).undone

getStateMemoryBytes(b) == StateBytes
\* the current state and undoStateBudget undo states
getMemoryNeededForReservingStates(b) ==
    RMulInt(RAdd(b.undoStateBudget, RInt(1)), StateBytes)

\* number of undo states the buffer holds: one per undoStateInterval
\* events, at most undoStateBudget
undoStatesLength(b) ==
    Min(Max(RFloor(b.undoStateBudget), 0), Len(b.events) \div UndoStateInterval)

setUndoStateBudget(b, budget) == [b EXCEPT !.undoStateBudget = budget]


\* PictureBuffer.pushEvent: the event goes to the end of the log; a merge
\* event that is not undone marks the merged buffer as merged to this one
ApplyMergedTo(P, id, event) ==
    IF event.eventType = "bufferMerge" /\ ~event.undone /\ event.bufferId \in DOMAIN P.buf
    THEN [P EXCEPT !.buf[event.bufferId].mergedTo = id]
    ELSE P

BufferPushEvent(P, id, event) ==
    ApplyMergedTo([P EXCEPT !.buf[id].events = Append(@, event)], id, event)

\* PictureBuffer.insertEvent: the event goes to the insertion point, which
\* moves past it
BufferInsertEvent(P, id, event) ==
    LET b == P.buf[id] IN
    ApplyMergedTo([P EXCEPT !.buf[id].events = SpliceIns(@, b.insertionPoint, event),
                            !.buf[id].insertionPoint = Min(b.insertionPoint, Len(b.events)) + 1],
                  id, event)

\* PictureBuffer.undoEventIndex: null for a merge event when allowUndoMerge
\* is false, else the event, marked undone; undoing a merge event clears
\* mergedTo of the merged buffer
BufferUndoRefused(b, eventIndex, allowUndoMerge) ==
    At(b.events, eventIndex).eventType = "bufferMerge" /\ ~allowUndoMerge

BufferUndoEventIndex(P, id, eventIndex) ==
    LET e == At(P.buf[id].events, eventIndex)
        P1 == [P EXCEPT !.buf[id].events[eventIndex + 1].undone = TRUE]
    IN IF e.eventType = "bufferMerge" /\ e.bufferId \in DOMAIN P.buf
       THEN [P1 EXCEPT !.buf[e.bufferId].mergedTo = NoBuffer]
       ELSE P1

\* PictureBuffer.redoEventIndex
BufferRedoEventIndex(P, id, eventIndex) ==
    LET e == At(P.buf[id].events, eventIndex)
        P1 == [P EXCEPT !.buf[id].events[eventIndex + 1].undone = FALSE]
    IN IF e.eventType = "bufferMerge" /\ e.bufferId \in DOMAIN P.buf
       THEN [P1 EXCEPT !.buf[e.bufferId].mergedTo = id]
       ELSE P1

\* PictureBuffer.removeEventIndex: the event leaves the log
BufferRemoveEventIndex(P, id, eventIndex) ==
    LET b == P.buf[id] IN
    [P EXCEPT !.buf[id].events = SpliceDel1(@, eventIndex),
              !.buf[id].insertionPoint =
                  IF eventIndex < b.insertionPoint THEN b.insertionPoint - 1
                  ELSE b.insertionPoint]

\* ------------------------------------------------------------------ Picture
\* return values
RetVoid == [kind |-> "void", ev |-> NoEvent, b |-> FALSE]
RetNull == [kind |-> "null", ev |-> NoEvent, b |-> FALSE]
RetEvent(e) == [kind |-> "event", ev |-> e, b |-> FALSE]
RetBool(v) == [kind |-> "bool", ev |-> NoEvent, b |-> v]

Throw(P) == [P EXCEPT !.threw = TRUE, !.ret = RetVoid]

BaseMemory == CompositingBytes + 2 * RasterizerBytes

findBufferIndex(buffers, id) ==
    LET hits == {i \in 0..(Len(buffers) - 1) : At(buffers, i) = id}
    IN IF hits = {} THEN -1 ELSE CHOOSE i \in hits : \A j \in hits : i <= j

\* the id of the buffer found, or NoBuffer for null
findBuffer(P, id) ==
    IF findBufferIndex(P.buffers, id) # -1 THEN id
    ELSE IF findBufferIndex(P.mergedBuffers, id) # -1 THEN id
    ELSE NoBuffer

\* ten times the priority, as a rational
bufferFreeingPriority(b) ==
    LET base == RMulInt(b.undoStateBudget, 10)
        bonus == IF (isRemoved(b) \/ b.mergedTo # NoBuffer) /\ RLt(RInt(1), b.undoStateBudget)
                 THEN RSub(RMulInt(b.undoStateBudget, 10), RInt(15))
                 ELSE RInt(0)
    IN RSub(RAdd(base, bonus), RInt(undoStatesLength(b)))

\* The scan of one pass of the loop of stayWithinMemoryBudget. Slot k stands
\* for buffers[k] when k < buffers.length and for
\* mergedBuffers[k - buffers.length] otherwise.
SlotCount(P) == Len(P.buffers) + Len(P.mergedBuffers)
SlotId(P, k) == IF k < Len(P.buffers) THEN At(P.buffers, k)
                ELSE At(P.mergedBuffers, k - Len(P.buffers))
\* the buffer whose freed flag the scan reads for the slot: for a merged
\* buffer at index i this is buffers[i] (line 687)
SlotFreedIndex(P, k) == IF k < Len(P.buffers) THEN k ELSE k - Len(P.buffers)
SlotBudgetAboveOne(P, k) == RLt(RInt(1), P.buf[SlotId(P, k)].undoStateBudget)
SlotThrows(P, k) ==
    /\ SlotBudgetAboveOne(P, k)
    /\ \/ SlotFreedIndex(P, k) >= Len(P.buffers)
       \/ /\ ~P.buf[At(P.buffers, SlotFreedIndex(P, k))].freed
          /\ isRemovedThrows(P.buf[SlotId(P, k)])
SlotIsCandidate(P, k) ==
    /\ SlotBudgetAboveOne(P, k)
    /\ ~P.buf[At(P.buffers, SlotFreedIndex(P, k))].freed

\* the buffer selected by one pass of the while loop: the first of the
\* greatest priority among the slots the scan takes for candidates
SlotPriority(P, k) == bufferFreeingPriority(P.buf[SlotId(P, k)])
FirstOfGreatestPriority(cands, priority) ==
    CHOOSE k \in cands : \A j \in cands :
        \/ RLt(priority[j], priority[k])
        \/ (priority[j] = priority[k] /\ k <= j)
SelectedSlot(P) ==
    FirstOfGreatestPriority({k \in 0..(SlotCount(P) - 1) : SlotIsCandidate(P, k)},
                            [k \in 0..(SlotCount(P) - 1) |-> SlotPriority(P, k)])

\* one pass of the while loop of stayWithinMemoryBudget
\* the end of a pass: the budget of the selected buffer goes down by one
stayWithinMemoryBudgetLower(P, id) ==
    [P EXCEPT !.buf[id] = setUndoStateBudget(@, RSub(@.undoStateBudget, RInt(1))),
              !.memoryUse = RSub(@, RInt(getStateMemoryBytes(P.buf[id])))]

stayWithinMemoryBudgetPass(P) ==
    IF \E k \in 0..(SlotCount(P) - 1) : SlotThrows(P, k) THEN Throw(P)
    ELSE IF \A k \in 0..(SlotCount(P) - 1) : ~SlotIsCandidate(P, k) THEN P
    ELSE stayWithinMemoryBudgetLower(P, SlotId(P, SelectedSlot(P)))

\* needToFree of stayWithinMemoryBudget
NeedToFree(P, requestedFreeBytes) ==
    RSub(P.memoryUse, RSub(RInt(P.memoryBudget), requestedFreeBytes))

RECURSIVE stayWithinMemoryBudget(_, _)
\* after a pass that took P to Q: the loop ends on a throw and when no
\* buffer was selected
stayWithinMemoryBudgetAgain(P, Q, requestedFreeBytes) ==
    IF Q.threw \/ Q = P THEN Q
    ELSE stayWithinMemoryBudget(Q, requestedFreeBytes)

stayWithinMemoryBudget(P, requestedFreeBytes) ==
    IF ~RLt(RInt(0), NeedToFree(P, requestedFreeBytes)) THEN P
    ELSE stayWithinMemoryBudgetAgain(P, stayWithinMemoryBudgetPass(P), requestedFreeBytes)

\* isRemoved is called on every buffer of the stack
StackIsRemovedThrows(P) ==
    \E i \in 0..(Len(P.buffers) - 1) : isRemovedThrows(P.buf[At(P.buffers, i)])

NonRemovedIndices(P) ==
    {i \in 0..(Len(P.buffers) - 1) : ~isRemoved(P.buf[At(P.buffers, i)])}

RECURSIVE SumBudgets(_, _)
SumBudgets(P, idx) ==
    IF idx = {} THEN RInt(0)
    ELSE LET i == CHOOSE i \in idx : TRUE
         IN RAdd(P.buf[At(P.buffers, i)].undoStateBudget, SumBudgets(P, idx \ {i}))

AverageBudget(P, idx) ==
    IF idx # {} THEN RDivInt(SumBudgets(P, idx), Cardinality(idx))
    ELSE RInt(5)

averageUndoStateBudgetOfActiveBuffers(P) == AverageBudget(P, NonRemovedIndices(P))

freeBuffer(P, id) ==
    IF ~P.buf[id].freed
    THEN [P EXCEPT !.buf[id].freed = TRUE,
                   !.memoryUse = RSub(@, getMemoryNeededForReservingStates(P.buf[id]))]
    ELSE P

\* regenerateBuffer after its call of stayWithinMemoryBudget, which took
\* the picture to P1
regenerateBufferReserve(P1, id, memIncrease) ==
    IF P1.threw THEN P1
    ELSE [P1 EXCEPT !.buf[id].freed = FALSE,
                    !.memoryUse = RAdd(@, memIncrease)]

regenerateBufferFreed(P, id, memIncrease) ==
    regenerateBufferReserve(stayWithinMemoryBudget(P, memIncrease), id, memIncrease)

regenerateBuffer(P, id) ==
    IF P.buf[id].freed
    THEN regenerateBufferFreed(P, id, getMemoryNeededForReservingStates(P.buf[id]))
    ELSE P


\* createBuffer(createEvent, true): the new buffer is P.buf[id]; the caller
\* puts it on the stack
createBufferSpaceLeftStates(spaceLeft) ==
    IF spaceLeft < 0 THEN 0
    ELSE IF spaceLeft > MaxNewBufferBudget THEN MaxNewBufferBudget
    ELSE spaceLeft

createBufferSetBudget(P2, id, buffer, spaceLeftStates) ==
    IF P2.threw THEN P2
    ELSE [P2 EXCEPT
            !.buf = (id :> setUndoStateBudget(buffer, RInt(spaceLeftStates))) @@ @,
            !.memoryUse = RAdd(@, RInt(spaceLeftStates * getStateMemoryBytes(buffer)))]

createBufferReserve(P2, id, buffer) ==
    createBufferSetBudget(P2, id, buffer,
        createBufferSpaceLeftStates(
            RFloor(RDivInt(RSub(RInt(P2.memoryBudget), P2.memoryUse),
                           getStateMemoryBytes(buffer)))))

createBufferRequest(P1, id, buffer) ==
    IF StackIsRemovedThrows(P1) THEN Throw(P1)
    ELSE createBufferReserve(
             stayWithinMemoryBudget(P1,
                 RInt(getStateMemoryBytes(buffer) *
                      RFloor(averageUndoStateBudgetOfActiveBuffers(P1)))),
             id, buffer)

createBufferUndone(P, id, buffer) ==
    IF StackIsRemovedThrows(P) THEN Throw(P)
    ELSE [P EXCEPT !.buf = (id :> setUndoStateBudget(buffer,
                                   averageUndoStateBudgetOfActiveBuffers(P))) @@ @]

createBuffer(P, createEvent) ==
    IF createEvent.undone
    THEN createBufferUndone(P, createEvent.bufferId, NewBuffer(createEvent))
    ELSE createBufferRequest(
             [P EXCEPT !.memoryUse = RAdd(@, RInt(getStateMemoryBytes(NewBuffer(createEvent))))],
             createEvent.bufferId, NewBuffer(createEvent))

afterRemove(P, id) ==
    LET b == P.buf[id] IN
    IF Len(b.events) < UndoStateInterval * 2
    THEN IF isRemovedThrows(b) THEN Throw(P)
         ELSE IF isRemoved(b) THEN freeBuffer(P, id) ELSE P
    ELSE P

\* a moveBufferInternal that leaves the stack as it is
moveBufferInternalNoMove(P, fromIndex, toIndex) == P

\* Picture.parse puts an empty function in the place of moveBufferInternal
\* of the picture it fills
moveBufferInternal(P, fromIndex, toIndex) ==
    IF P.moveBufferInternalOverridden THEN P
    ELSE [P EXCEPT !.buffers = SpliceIns(SpliceDel1(@, fromIndex), toIndex,
                                         At(P.buffers, fromIndex))]

\* pushEvent(targetBufferId, event) and insertEvent(targetBufferId, event)
\* differ in the PictureBuffer method they call: insert tells which
pushEventAdd(P1, id) ==
    IF P1.threw THEN P1
    ELSE [P1 EXCEPT !.buffers = Append(@, id)]

BufferPushOrInsert(P, id, event, insert) ==
    IF insert THEN BufferInsertEvent(P, id, event) ELSE BufferPushEvent(P, id, event)

pushEventRemove(P, bufferIndex, event, insert) ==
    IF bufferIndex < 0 THEN Throw(P)
    ELSE afterRemove(BufferPushOrInsert(P, At(P.buffers, bufferIndex), event, insert),
                     At(P.buffers, bufferIndex))

pushEventMove(P, fromIndex, event) ==
    IF fromIndex < 0 THEN Throw(P)
    ELSE IF ~event.undone
    THEN moveBufferInternal(BufferPushEvent(P, At(P.buffers, fromIndex), event),
                            fromIndex, event.toIndex)
    ELSE BufferPushEvent(P, At(P.buffers, fromIndex), event)

pushEventMerged(P1, mergedBufferIndex, event) ==
    IF ~event.undone
    THEN [P1 EXCEPT !.buffers = SpliceDel1(@, mergedBufferIndex),
                    !.mergedBuffers = Append(@, event.bufferId)]
    ELSE P1

pushEventTarget(P, targetBuffer, event, insert) ==
    IF targetBuffer = NoBuffer THEN Throw(P)
    ELSE IF event.eventType = "bufferMerge"
    THEN pushEventMerged(BufferPushOrInsert(P, targetBuffer, event, insert),
                         findBufferIndex(P.buffers, event.bufferId), event)
    ELSE BufferPushOrInsert(P, targetBuffer, event, insert)

pushEvent(P, targetBufferId, event) ==
    IF event.eventType = "bufferAdd"
    THEN pushEventAdd(createBuffer(P, event), event.bufferId)
    ELSE IF event.eventType = "bufferRemove"
    THEN pushEventRemove(P, findBufferIndex(P.buffers, event.bufferId), event, FALSE)
    ELSE IF event.eventType = "bufferMove"
    THEN pushEventMove(P, findBufferIndex(P.buffers, event.bufferId), event)
    ELSE pushEventTarget(P, findBuffer(P, targetBufferId), event, FALSE)

\* insertEvent(targetBufferId, event); not for bufferAdd and bufferMove
insertEvent(P, targetBufferId, event) ==
    IF event.eventType = "bufferRemove"
    THEN pushEventRemove(P, findBufferIndex(P.buffers, event.bufferId), event, TRUE)
    ELSE pushEventTarget(P, findBuffer(P, targetBufferId), event, TRUE)

\* findLatest(sid, canBeUndone): null is the record with found = FALSE
NoLatest == [found |-> FALSE, eventIndex |-> 0, bufferIndex |-> 0,
             sessionEventId |-> -1, inRemovedBuffer |-> FALSE]

\* one buffer of a loop of findLatest: candidateIndex is what
\* PictureBuffer.findLatest returned for buffer i of the list
FindLatestBetter(b, latest, i, inMerged, candidateIndex) ==
    IF /\ candidateIndex >= 0
       /\ At(b.events, candidateIndex).sessionEventId > latest.sessionEventId
    THEN [found |-> TRUE, eventIndex |-> candidateIndex, bufferIndex |-> i,
          sessionEventId |-> At(b.events, candidateIndex).sessionEventId,
          inRemovedBuffer |-> inMerged]
    ELSE latest

RECURSIVE FindLatestScan(_, _, _, _, _, _, _)
FindLatestScan(P, list, inMerged, sid, canBeUndone, i, latest) ==
    IF i >= Len(list) THEN latest
    ELSE FindLatestScan(P, list, inMerged, sid, canBeUndone, i + 1,
             FindLatestBetter(P.buf[At(list, i)], latest, i, inMerged,
                 BufferFindLatest(P.buf[At(list, i)], sid, canBeUndone)))

FindLatestResult(m) == IF m.sessionEventId >= 0 THEN m ELSE NoLatest

\* findLatest without its second loop, the one over mergedBuffers
findLatestStackOnly(P, sid, canBeUndone) ==
    FindLatestResult(FindLatestScan(P, P.buffers, FALSE, sid, canBeUndone, 0, NoLatest))

findLatest(P, sid, canBeUndone) ==
    FindLatestResult(
        FindLatestScan(P, P.mergedBuffers, TRUE, sid, canBeUndone, 0,
            FindLatestScan(P, P.buffers, FALSE, sid, canBeUndone, 0, NoLatest)))

setActiveSessionFrom(P, sid, latest) ==
    [P EXCEPT !.activeSid = sid,
              !.activeSessionEventId = IF latest.found THEN latest.sessionEventId + 1 ELSE 0,
              !.ret = RetVoid]

setActiveSession(P, sid) == setActiveSessionFrom(P, sid, findLatest(P, sid, TRUE))

\* undoEventIndex(buffer, eventIndex, isBufferMerged); buffer is given by
\* its id. P1 is the picture after PictureBuffer.undoEventIndex, e the event
\* before it was undone
undoEventIndexMerge(P1, bufferIndex, e) ==
    [P1 EXCEPT !.buffers = SpliceIns(@, bufferIndex + 1, e.bufferId),
               !.mergedBuffers = SpliceDel1(@, findBufferIndex(@, e.bufferId))]

\* an undoEventIndex without the branch for bufferMove events
undoEventIndexUndoneNoMove(P1, id, eventIndex, isBufferMerged, e) ==
    IF eventIndex = 0 THEN freeBuffer(P1, id)
    ELSE IF e.eventType = "bufferRemove"
    THEN IF ~isRemoved(P1.buf[id]) THEN regenerateBuffer(P1, id) ELSE P1
    ELSE IF e.eventType = "bufferMerge"
    THEN undoEventIndexMerge(P1, findBufferIndex(P1.buffers, id), e)
    ELSE P1

undoEventIndexUndone(P1, id, eventIndex, isBufferMerged, e) ==
    IF eventIndex = 0 THEN freeBuffer(P1, id)
    ELSE IF e.eventType = "bufferRemove"
    THEN IF ~isRemoved(P1.buf[id]) THEN regenerateBuffer(P1, id) ELSE P1
    ELSE IF e.eventType = "bufferMerge"
    THEN undoEventIndexMerge(P1, findBufferIndex(P1.buffers, id), e)
    ELSE IF e.eventType = "bufferMove" /\ ~isBufferMerged
    THEN moveBufferInternal(P1, findBufferIndex(P1.buffers, id),
                            Min(Len(P1.buffers) - 1, e.fromIndex))
    ELSE P1

\* an undoEventIndex that refuses every merge event, also in a buffer of
\* the stack
undoEventIndexEventRefusesMerge(P, id, eventIndex, isBufferMerged, e) ==
    IF BufferUndoRefused(P.buf[id], eventIndex, FALSE)
    THEN [P EXCEPT !.ret = RetNull]
    ELSE undoEventIndexUndone(
             [BufferUndoEventIndex(P, id, eventIndex) EXCEPT
                 !.ret = RetEvent([e EXCEPT !.undone = TRUE])],
             id, eventIndex, isBufferMerged, e)

undoEventIndexEvent(P, id, eventIndex, isBufferMerged, e) ==
    IF BufferUndoRefused(P.buf[id], eventIndex, ~isBufferMerged)
    THEN [P EXCEPT !.ret = RetNull]
    ELSE undoEventIndexUndone(
             [BufferUndoEventIndex(P, id, eventIndex) EXCEPT
                 !.ret = RetEvent([e EXCEPT !.undone = TRUE])],
             id, eventIndex, isBufferMerged, e)

undoEventIndex(P, id, eventIndex, isBufferMerged) ==
    undoEventIndexEvent(P, id, eventIndex, isBufferMerged, At(P.buf[id].events, eventIndex))

\* undoLatest(keepLastBuffer) after its call of findLatest
undoLatestOf(P, keepLastBuffer, latest) ==
    IF ~latest.found THEN [P EXCEPT !.ret = RetNull]
    ELSE IF latest.inRemovedBuffer
    THEN undoEventIndex(P, At(P.mergedBuffers, latest.bufferIndex), latest.eventIndex, TRUE)
    ELSE IF keepLastBuffer /\ latest.eventIndex = 0
    THEN IF StackIsRemovedThrows(P) THEN Throw(P)
         ELSE IF Cardinality(NonRemovedIndices(P)) = 1 THEN [P EXCEPT !.ret = RetNull]
         ELSE undoEventIndex(P, At(P.buffers, latest.bufferIndex), latest.eventIndex, FALSE)
    ELSE undoEventIndex(P, At(P.buffers, latest.bufferIndex), latest.eventIndex, FALSE)

undoLatest(P, keepLastBuffer) ==
    undoLatestOf(P, keepLastBuffer, findLatest(P, P.activeSid, FALSE))

\* The loops of undoEventFromBuffers, redoEventFromBuffers and
\* removeEventFromBuffers walk the list from its end: the index j of the
\* buffer they stop at, -1 if no buffer of the list holds the event
FindFromEnd(P, list, sid, sessionEventId) ==
    LET hits == {j \in 0..(Len(list) - 1) :
                    eventIndexBySessionId(P.buf[At(list, j)], sid, sessionEventId) >= 0}
    IN IF hits = {} THEN -1 ELSE CHOOSE j \in hits : \A k \in hits : j >= k

\* the list the loops walk
BufferList(P, merged) == IF merged THEN P.mergedBuffers ELSE P.buffers

\* the body of the loop of undoEventFromBuffers for the event i of buffer id
\* an undoEventFromBuffers that undoes the event whether it is undone or not
undoEventFromBuffersAtAgain(P, id, i, merged) == undoEventIndex(P, id, i, merged)

undoEventFromBuffersAt(P, id, i, merged) ==
    IF ~At(P.buf[id].events, i).undone
    THEN undoEventIndex(P, id, i, merged)
    ELSE [P EXCEPT !.ret = RetEvent(At(P.buf[id].events, i))]

undoEventFromBuffersIn(P, id, merged, sid, sessionEventId) ==
    undoEventFromBuffersAt(P, id,
        eventIndexBySessionId(P.buf[id], sid, sessionEventId), merged)

undoEventFromBuffersFrom(P, list, j, merged, sid, sessionEventId) ==
    IF j < 0 THEN [P EXCEPT !.ret = RetNull]
    ELSE undoEventFromBuffersIn(P, At(list, j), merged, sid, sessionEventId)

undoEventFromBuffers(P, merged, sid, sessionEventId) ==
    undoEventFromBuffersFrom(P, BufferList(P, merged),
        FindFromEnd(P, BufferList(P, merged), sid, sessionEventId),
        merged, sid, sessionEventId)

\* undoEventSessionId after its search of this.buffers gave P1
undoEventSessionIdMerged(P1, sid, sessionEventId) ==
    IF P1.threw \/ P1.ret.kind # "null" THEN P1
    ELSE undoEventFromBuffers(P1, TRUE, sid, sessionEventId)

undoEventSessionId(P, sid, sessionEventId) ==
    undoEventSessionIdMerged(undoEventFromBuffers(P, FALSE, sid, sessionEventId),
                             sid, sessionEventId)

\* redo of a merge event: PT is the picture, P1 the picture after the
\* buffer's redoEventIndex
redoMerge(PT, P1, event) ==
    [P1 EXCEPT !.buffers = SpliceDel1(@, findBufferIndex(PT.buffers, event.bufferId)),
               !.mergedBuffers = Append(@, event.bufferId)]

\* redo of an event that is neither a merge nor a remove: P1 is the picture
\* after regenerateBuffer, if the event is the first of the log
redoOther(P1, id, i) ==
    IF P1.threw THEN P1 ELSE BufferRedoEventIndex(P1, id, i)

\* the body of the loop of redoEventFromBuffers for the event i of buffer id
redoEventFromBuffersEvent(PT, id, i, event) ==
    IF ~event.undone THEN PT
    ELSE IF event.eventType = "bufferMerge"
    THEN redoMerge(PT, BufferRedoEventIndex(PT, id, i), event)
    ELSE IF event.eventType = "bufferRemove"
    THEN afterRemove(BufferRedoEventIndex(PT, id, i), id)
    ELSE redoOther(IF i = 0 THEN regenerateBuffer(PT, id) ELSE PT, id, i)

redoEventFromBuffersAt(P, id, i) ==
    redoEventFromBuffersEvent([P EXCEPT !.ret = RetBool(TRUE)], id, i,
                              At(P.buf[id].events, i))

redoEventFromBuffersIn(P, id, sid, sessionEventId) ==
    redoEventFromBuffersAt(P, id, eventIndexBySessionId(P.buf[id], sid, sessionEventId))

redoEventFromBuffersFrom(P, list, j, sid, sessionEventId) ==
    IF j < 0 THEN [P EXCEPT !.ret = RetBool(FALSE)]
    ELSE redoEventFromBuffersIn(P, At(list, j), sid, sessionEventId)

redoEventFromBuffers(P, merged, sid, sessionEventId) ==
    redoEventFromBuffersFrom(P, BufferList(P, merged),
        FindFromEnd(P, BufferList(P, merged), sid, sessionEventId),
        sid, sessionEventId)

\* redoEventSessionId after its search of this.buffers gave P1
redoEventSessionIdMerged(P1, sid, sessionEventId) ==
    IF P1.threw \/ P1.ret.b THEN P1
    ELSE redoEventFromBuffers(P1, TRUE, sid, sessionEventId)

redoEventSessionId(P, sid, sessionEventId) ==
    redoEventSessionIdMerged(redoEventFromBuffers(P, FALSE, sid, sessionEventId),
                             sid, sessionEventId)

\* removeEventFromBuffers after the undo of the event gave P1
removeEventFromBuffersUndone(P1, id, i) ==
    IF P1.threw THEN P1
    ELSE IF P1.ret.kind = "event"
    THEN [BufferRemoveEventIndex(P1, id, i) EXCEPT !.ret = RetBool(TRUE)]
    ELSE [P1 EXCEPT !.ret = RetBool(FALSE)]

removeEventFromBuffersIn(P, id, merged, sid, sessionEventId) ==
    removeEventFromBuffersUndone(
        undoEventFromBuffersIn(P, id, merged, sid, sessionEventId),
        id, eventIndexBySessionId(P.buf[id], sid, sessionEventId))

\* a removeEventFromBuffers that reports success when no log holds the event
removeEventFromBuffersNotFoundTrue(P, list, j, merged, sid, sessionEventId) ==
    IF j < 0 THEN [P EXCEPT !.ret = RetBool(TRUE)]
    ELSE removeEventFromBuffersIn(P, At(list, j), merged, sid, sessionEventId)

removeEventFromBuffersFrom(P, list, j, merged, sid, sessionEventId) ==
    IF j < 0 THEN [P EXCEPT !.ret = RetBool(FALSE)]
    ELSE removeEventFromBuffersIn(P, At(list, j), merged, sid, sessionEventId)

removeEventFromBuffers(P, merged, sid, sessionEventId) ==
    removeEventFromBuffersFrom(P, BufferList(P, merged),
        FindFromEnd(P, BufferList(P, merged), sid, sessionEventId),
        merged, sid, sessionEventId)

\* removeEventSessionId after its search of this.buffers gave P1
removeEventSessionIdMerged(P1, sid, sessionEventId) ==
    IF P1.threw \/ P1.ret.b THEN P1
    ELSE removeEventFromBuffers(P1, TRUE, sid, sessionEventId)

removeEventSessionId(P, sid, sessionEventId) ==
    removeEventSessionIdMerged(removeEventFromBuffers(P, FALSE, sid, sessionEventId),
                               sid, sessionEventId)


\* -------------------------------------------------------------------- state
VARIABLES
    buffers,              \* Picture.buffers: ids of the buffers of the stack
    mergedBuffers,        \* Picture.mergedBuffers: ids of the merged buffers
    buf,                  \* the PictureBuffer objects, by id
    memoryUse,            \* Picture.memoryUse (a rational)
    memoryBudget,         \* Picture.memoryBudget
    activeSid,            \* Picture.activeSid
    activeSessionEventId, \* Picture.activeSessionEventId
    threw,                \* the last call ended in an uncaught TypeError
    ret,                  \* what the last call returned
    op,                   \* the name of the last call
    nCreated,             \* how many events the create*Event functions made
    mergeIndex,           \* history: per merge event, the index its merged
                          \* buffer had in the stack when the event was pushed
    rt,                   \* history: a push, then the undo of the pushed event,
                          \* then its redo (or a redo right after the push, or a
                          \* second undo), with the stack before the push and
                          \* what was observable after it
    pending,              \* the events a create*Event function returned that
                          \* were not pushed yet
    made,                 \* the last call of Picture.create, Picture.parse,
                          \* Picture.resize or serialize: its inputs and result
    anim,                 \* the animation state of the picture: animating,
                          \* animators, animationBuffers, totalEvents, and the
                          \* callbacks animate() scheduled that did not fire yet
    layer                 \* one PictureBuffer with what its bitmap and its
                          \* undo states hold

vars == <<buffers, mergedBuffers, buf, memoryUse, memoryBudget, activeSid,
          activeSessionEventId, threw, ret, op, nCreated, mergeIndex, rt, pending, made,
          anim, layer>>

\* the animation state new Picture(...) leaves: animating is false, and
\* animators and animationBuffers are not assigned (undefined)
AnimIdle == [animating |-> FALSE,
             animatorsDefined |-> FALSE, animators |-> <<>>,
             animationBuffersState |-> "undefined", animationBuffers |-> <<>>,
             totalEvents |-> 0, scheduled |-> <<>>, finishedCallBacks |-> <<>>,
             calls |-> 0, displays |-> 0, started |-> <<>>, stopped |-> {}]

\* a bitmap is what was drawn to it, in order: the ids of the events. A new
\* buffer holds its create event, which cleared the bitmap, and no undo state
MaxLayerBudget == 2
NewLayer == [events |-> <<[id |-> 0, undone |-> FALSE]>>, bitmap |-> <<0>>,
             undoStates |-> <<>>, undoStateBudget |-> MaxLayerBudget, invalidated |-> 0]

Pic == [buffers |-> buffers, mergedBuffers |-> mergedBuffers, buf |-> buf,
        memoryUse |-> memoryUse, memoryBudget |-> memoryBudget,
        activeSid |-> activeSid, activeSessionEventId |-> activeSessionEventId,
        threw |-> FALSE, ret |-> RetVoid, moveBufferInternalOverridden |-> FALSE,
        anim |-> anim]

\* what a caller can observe of the stack and the logs
Undone(P) ==
    UNION {{<<At(P.buf[id].events, i).sid, At(P.buf[id].events, i).sessionEventId>> :
               i \in {k \in 0..(Len(P.buf[id].events) - 1) : At(P.buf[id].events, k).undone}} :
           id \in DOMAIN P.buf}
Obs(P) == [stack |-> P.buffers,
           merged |-> {At(P.mergedBuffers, i) : i \in 0..(Len(P.mergedBuffers) - 1)},
           undone |-> Undone(P)]

RtIdle == [stage |-> 0, sid |-> -1, sessionEventId |-> -1, obs |-> <<>>, before |-> <<>>]
PushNames == {"addBuffer", "removeBuffer", "moveBuffer", "mergeBuffer", "pushEvent",
              "insertEvent"}

\* the call name(sid, sessionEventId) took the picture to P; for a push the
\* ids are those of the pushed event
RtNext(P, name, sid, sessionEventId) ==
    IF P.threw THEN RtIdle
    ELSE IF name \in PushNames
    THEN [stage |-> 1, sid |-> sid, sessionEventId |-> sessionEventId, obs |-> Obs(P),
          before |-> buffers]
    ELSE IF /\ name = "undoEventSessionId" /\ rt.stage = 1
            /\ rt.sid = sid /\ rt.sessionEventId = sessionEventId
    THEN [rt EXCEPT !.stage = 2]
    ELSE IF /\ name = "redoEventSessionId" /\ rt.stage = 2
            /\ rt.sid = sid /\ rt.sessionEventId = sessionEventId
    THEN [rt EXCEPT !.stage = 3]
    ELSE IF /\ name = "redoEventSessionId" /\ rt.stage = 1
            /\ rt.sid = sid /\ rt.sessionEventId = sessionEventId
    THEN [rt EXCEPT !.stage = 4]
    ELSE IF /\ name = "undoEventSessionId" /\ rt.stage = 2
            /\ rt.sid = sid /\ rt.sessionEventId = sessionEventId
    THEN [rt EXCEPT !.stage = 5]
    ELSE RtIdle

Becomes(P, name, sid, sessionEventId) ==
    /\ buffers' = P.buffers
    /\ mergedBuffers' = P.mergedBuffers
    /\ buf' = P.buf
    /\ memoryUse' = P.memoryUse
    /\ memoryBudget' = P.memoryBudget
    /\ activeSid' = P.activeSid
    /\ activeSessionEventId' = P.activeSessionEventId
    /\ threw' = P.threw
    /\ ret' = P.ret
    /\ op' = name
    /\ nCreated' = IF name \in PushNames THEN nCreated + 1 ELSE nCreated
    /\ rt' = RtNext(P, name, sid, sessionEventId)
    /\ made' = made
    /\ anim' = P.anim
    /\ layer' = layer

\* no call of Picture.create, Picture.parse, Picture.resize or serialize yet
NoneMade == [call |-> "none"]

\* new Picture(...) in mode 'webgl': no buffers, the compositing buffer and
\* the two rasterizers accounted for
Init ==
    /\ buffers = <<>>
    /\ mergedBuffers = <<>>
    /\ buf = <<>>
    /\ memoryUse = RInt(BaseMemory)
    /\ memoryBudget \in MemoryBudgets
    /\ activeSid = 0
    /\ activeSessionEventId = 0
    /\ threw = FALSE
    /\ ret = RetVoid
    /\ op = "new"
    /\ nCreated = 0
    /\ mergeIndex = {}
    /\ rt = RtIdle
    /\ pending = <<>>
    /\ made = NoneMade
    /\ anim = AnimIdle
    /\ layer = NewLayer

Sids == 0..MaxSid
SessionEventIds == 0..(MaxSessionEventId - 1)
BufferIds == 0..(MaxBuffers - 1)
KnownIds == {At(buffers, i) : i \in 0..(Len(buffers) - 1)} \cup
            {At(mergedBuffers, i) : i \in 0..(Len(mergedBuffers) - 1)}

\* create*Event: the event takes the active session's next id
Created(P) == [P EXCEPT !.activeSessionEventId = @ + 1]
AllEvents ==
    UNION {{At(buf[id].events, i) : i \in 0..(Len(buf[id].events) - 1)} : id \in DOMAIN buf}

HeldOfType(type) == Cardinality({e \in AllEvents : e.eventType = type})

MaxOfType(type) ==
    CASE type = "bufferAdd" -> MaxBuffers
      [] type = "bufferRemove" -> MaxRemoves
      [] type = "bufferMove" -> MaxMoves
      [] type = "bufferMerge" -> MaxMerges
      [] OTHER -> MaxBrushes

CanCreate(type) ==
    /\ activeSessionEventId < MaxSessionEventId
    /\ nCreated < MaxEvents
    /\ HeldOfType(type) < MaxOfType(type)

\* the event of a log with the given ids, if any
Held(sid, sessionEventId) ==
    \E e \in AllEvents : e.sid = sid /\ e.sessionEventId = sessionEventId
HeldUndone(sid, sessionEventId, undone) ==
    \E e \in AllEvents : e.sid = sid /\ e.sessionEventId = sessionEventId /\ e.undone = undone

SetActiveSession(sid) ==
    /\ Becomes(setActiveSession(Pic, sid), "setActiveSession", sid, -1)
    /\ UNCHANGED <<mergeIndex, pending>>

\* addBuffer(id, clearColor, hasAlpha), or createBufferAddEvent and
\* pushEvent of the event with its undone flag set; the caller numbers the
\* buffers 0, 1, 2, ...
AddBuffer(id, undone) ==
    /\ CanCreate("bufferAdd")
    /\ id \notin DOMAIN buf
    /\ \A other \in BufferIds : other < id => other \in DOMAIN buf
    /\ Becomes(pushEvent(Created(Pic), id,
                   Event("bufferAdd", activeSid, activeSessionEventId, undone, id, -1, -1)),
               "addBuffer", activeSid, activeSessionEventId)
    /\ UNCHANGED <<mergeIndex, pending>>

\* removeBuffer(id), or createBufferRemoveEvent and insertEvent
RemoveBuffer(id, undone, insert) ==
    /\ CanCreate("bufferRemove")
    /\ findBufferIndex(buffers, id) >= 0
    /\ LET e == Event("bufferRemove", activeSid, activeSessionEventId, undone, id, -1, -1) IN
       IF insert
       THEN Becomes(insertEvent(Created(Pic), id, e), "insertEvent",
                    activeSid, activeSessionEventId)
       ELSE Becomes(pushEvent(Created(Pic), id, e), "removeBuffer",
                    activeSid, activeSessionEventId)
    /\ UNCHANGED <<mergeIndex, pending>>

\* moveBuffer(movedId, toIndex)
MoveBuffer(movedId, toIndex, undone) ==
    /\ CanCreate("bufferMove")
    /\ findBufferIndex(buffers, movedId) >= 0
    /\ toIndex \in 0..(Len(buffers) - 1)
    /\ Becomes(pushEvent(Created(Pic), movedId,
                   Event("bufferMove", activeSid, activeSessionEventId, undone, movedId,
                         findBufferIndex(buffers, movedId), toIndex)),
               "moveBuffer", activeSid, activeSessionEventId)
    /\ UNCHANGED <<mergeIndex, pending>>

\* createMergeEvent(mergedBufferIndex, opacity) and pushEvent or insertEvent
\* of the event to targetBufferId
MergeBuffer(mergedBufferIndex, targetBufferId, undone, insert) ==
    /\ CanCreate("bufferMerge")
    /\ mergedBufferIndex \in 0..(Len(buffers) - 1)
    /\ targetBufferId \in KnownIds
    /\ targetBufferId # At(buffers, mergedBufferIndex)
    /\ LET e == Event("bufferMerge", activeSid, activeSessionEventId, undone,
                      At(buffers, mergedBufferIndex), -1, -1) IN
       IF insert
       THEN Becomes(insertEvent(Created(Pic), targetBufferId, e), "insertEvent",
                    activeSid, activeSessionEventId)
       ELSE Becomes(pushEvent(Created(Pic), targetBufferId, e), "mergeBuffer",
                    activeSid, activeSessionEventId)
    /\ mergeIndex' = {m \in mergeIndex : ~(m.sid = activeSid /\
                                           m.sessionEventId = activeSessionEventId)}
                     \cup {[sid |-> activeSid, sessionEventId |-> activeSessionEventId,
                            index |-> mergedBufferIndex]}
    /\ UNCHANGED pending

\* createBrushEvent (or any other event that is no buffer stack change) and
\* pushEvent or insertEvent of it
PushBrush(type, targetBufferId, undone, insert) ==
    /\ CanCreate(type)
    /\ targetBufferId \in KnownIds
    /\ LET e == Event(type, activeSid, activeSessionEventId, undone, NoBuffer, -1, -1) IN
       IF insert
       THEN Becomes(insertEvent(Created(Pic), targetBufferId, e), "insertEvent",
                    activeSid, activeSessionEventId)
       ELSE Becomes(pushEvent(Created(Pic), targetBufferId, e), "pushEvent",
                    activeSid, activeSessionEventId)
    /\ UNCHANGED <<mergeIndex, pending>>

UndoLatest(keepLastBuffer) ==
    /\ Becomes(undoLatest(Pic, keepLastBuffer),
               IF keepLastBuffer THEN "undoLatest" ELSE "undoLatest(false)", -1, -1)
    /\ UNCHANGED <<mergeIndex, pending>>

UndoEventSessionId(sid, sessionEventId) ==
    /\ Becomes(undoEventSessionId(Pic, sid, sessionEventId), "undoEventSessionId",
               sid, sessionEventId)
    /\ UNCHANGED <<mergeIndex, pending>>

RedoEventSessionId(sid, sessionEventId) ==
    /\ Becomes(redoEventSessionId(Pic, sid, sessionEventId), "redoEventSessionId",
               sid, sessionEventId)
    /\ UNCHANGED <<mergeIndex, pending>>

RemoveEventSessionId(sid, sessionEventId) ==
    /\ Becomes(removeEventSessionId(Pic, sid, sessionEventId), "removeEventSessionId",
               sid, sessionEventId)
    /\ UNCHANGED <<mergeIndex, pending>>

\* stayWithinMemoryBudget(requestedFreeBytes)
StayWithinMemoryBudget(requestedFreeBytes) ==
    /\ Becomes(stayWithinMemoryBudget(Pic, RInt(requestedFreeBytes)),
               "stayWithinMemoryBudget", -1, -1)
    /\ UNCHANGED <<mergeIndex, pending>>

\* One session, every event pushed not undone, a memory budget that never
\* binds: the buffer stack under add, move, merge, undo and redo.
InitStack == Init /\ memoryBudget = 400

NextStack ==
    \/ \E id \in BufferIds : AddBuffer(id, FALSE)
    \/ \E id \in BufferIds, toIndex \in 0..(MaxBuffers - 1) : MoveBuffer(id, toIndex, FALSE)
    \/ \E i \in 0..(MaxBuffers - 1), t \in BufferIds : MergeBuffer(i, t, FALSE, FALSE)
    \/ \E keepLastBuffer \in BOOLEAN : UndoLatest(keepLastBuffer)
    \/ \E seid \in SessionEventIds :
          HeldUndone(0, seid, FALSE) /\ UndoEventSessionId(0, seid)
    \/ \E seid \in SessionEventIds :
          HeldUndone(0, seid, TRUE) /\ RedoEventSessionId(0, seid)

SpecStack == InitStack /\ [][NextStack]_vars


\* One session and memory budgets that bind: buffers added (also by an add
\* event that comes undone, as when a picture is parsed), merged, undone
\* and redone, and stayWithinMemoryBudget called directly.
RequestedFreeBytes == {0, 8, 24}

InitMem == Init /\ memoryBudget = 66

NextMem ==
    \/ \E id \in BufferIds, undone \in BOOLEAN :
          nCreated < MaxMemEvents /\ AddBuffer(id, undone)
    \/ \E i \in 0..(MaxBuffers - 1), t \in BufferIds :
          nCreated < MaxMemEvents /\ MergeBuffer(i, t, FALSE, FALSE)
    \/ \E seid \in SessionEventIds :
          HeldUndone(0, seid, FALSE) /\ UndoEventSessionId(0, seid)
    \/ \E seid \in SessionEventIds :
          HeldUndone(0, seid, TRUE) /\ RedoEventSessionId(0, seid)
    \/ \E r \in RequestedFreeBytes : StayWithinMemoryBudget(r)

SpecMem == InitMem /\ [][NextMem]_vars

\* Two sessions that take turns, a memory budget that never binds: events
\* pushed by either session and undoLatest of the active one.
NextUndo ==
    \/ \E sid \in Sids : sid # activeSid /\ SetActiveSession(sid)
    \/ \E id \in BufferIds :
          nCreated < MaxUndoEvents /\ AddBuffer(id, FALSE)
    \/ \E id \in BufferIds :
          nCreated < MaxUndoEvents /\ RemoveBuffer(id, FALSE, FALSE)
    \/ \E i \in 0..(MaxBuffers - 1), t \in BufferIds :
          nCreated < MaxUndoEvents /\ MergeBuffer(i, t, FALSE, FALSE)
    \/ \E type \in GenericTypes, t \in BufferIds :
          nCreated < MaxUndoEvents /\ PushBrush(type, t, FALSE, FALSE)
    \/ \E keepLastBuffer \in BOOLEAN : UndoLatest(keepLastBuffer)

SpecUndo == InitStack /\ [][NextUndo]_vars

\* =================================================================== claims
StackIds == {At(buffers, i) : i \in 0..(Len(buffers) - 1)}
MergedIds == {At(mergedBuffers, i) : i \in 0..(Len(mergedBuffers) - 1)}
\* the events of the logs of the buffers the picture holds
PictureEvents ==
    UNION {{At(buf[id].events, i) : i \in 0..(Len(buf[id].events) - 1)} :
           id \in StackIds \cup MergedIds}
Occurrences(list, id) == Cardinality({i \in 0..(Len(list) - 1) : At(list, i) = id})
\* the step is a call that undid or redid exactly the event e
StepUndid(e) ==
    /\ op' \in {"undoLatest", "undoLatest(false)", "undoEventSessionId"}
    /\ ~threw'
    /\ e \in PictureEvents /\ ~e.undone
    /\ ret' = RetEvent([e EXCEPT !.undone = TRUE])
StepRedid(e) ==
    /\ op' = "redoEventSessionId"
    /\ ~threw'
    /\ e \in PictureEvents /\ e.undone
    /\ <<e.sid, e.sessionEventId>> \notin Undone(Pic)'
\* the buffer of the picture whose log holds the event
Holder(e) == CHOOSE id \in StackIds \cup MergedIds :
                \E i \in 0..(Len(buf[id].events) - 1) : At(buf[id].events, i) = e
RecordedMergeIndex(e) ==
    (CHOOSE m \in mergeIndex : m.sid = e.sid /\ m.sessionEventId = e.sessionEventId).index

\* C1: every buffer of mergedBuffers is the mergedBuffer of some bufferMerge
\* event (undone or not) of the log of some buffer ever created, and no buffer is twice in the stack.
C1_StackTopology ==
    /\ \A id \in MergedIds :
          \E e \in AllEvents : e.eventType = "bufferMerge" /\ e.bufferId = id
    /\ \A id \in StackIds : Occurrences(buffers, id) = 1

\* C2: undoing a bufferMerge event takes the merged buffer out of
\* mergedBuffers and puts it back into the stack at the index it had right
\* before the merge event was pushed.
C2_UndoMergeRestoresIndex ==
    [][\A e \in PictureEvents :
          (e.eventType = "bufferMerge" /\ StepUndid(e)) =>
             /\ findBufferIndex(mergedBuffers', e.bufferId) = -1
             /\ findBufferIndex(buffers', e.bufferId) = RecordedMergeIndex(e)]_vars

\* C3: pushEvent(e), undoEventSessionId(e), redoEventSessionId(e) ends
\* with the stack order, the set of merged buffers and the undone flags that
\* held right after the push.
C3_UndoRedoRoundTrip ==
    rt.stage = 3 => Obs(Pic) = rt.obs

\* C4: redoEventSessionId of an undone bufferMerge event takes the merged
\* buffer, and no other, out of the stack and appends it to mergedBuffers.
C4_RedoMergeExact ==
    [][\A e \in PictureEvents :
          (e.eventType = "bufferMerge" /\ StepRedid(e)) =>
             /\ buffers' = SelectSeq(buffers, LAMBDA id : id # e.bufferId)
             /\ mergedBuffers' = Append(mergedBuffers, e.bufferId)
             /\ Occurrences(buffers, e.bufferId) <= 1]_vars


\* ------------------------------------------------------------ memory claims
IdsOf(P) == {At(P.buffers, i) : i \in 0..(Len(P.buffers) - 1)} \cup
            {At(P.mergedBuffers, i) : i \in 0..(Len(P.mergedBuffers) - 1)}
NonFreed(P) == {id \in IdsOf(P) : ~P.buf[id].freed}
\* the non-freed buffers whose budget can still be lowered
Lowerable(P) == {id \in NonFreed(P) : RLt(RInt(1), P.buf[id].undoStateBudget)}

RECURSIVE RSum(_)
RSum(f) ==
    IF DOMAIN f = {} THEN RInt(0)
    ELSE LET x == CHOOSE x \in DOMAIN f : TRUE
         IN RAdd(f[x], RSum([y \in DOMAIN f \ {x} |-> f[y]]))

\* memory use with every non-freed buffer lowered to one undo state
FloorUse(P) ==
    RAdd(RInt(BaseMemory),
         RSum([id \in NonFreed(P) |->
                  IF RLt(RInt(1), P.buf[id].undoStateBudget)
                  THEN RInt(2 * StateBytes)
                  ELSE getMemoryNeededForReservingStates(P.buf[id])]))

\* C5: after an operation memoryUse <= memoryBudget whenever lowering every
\* non-freed buffer to one undo state would be enough for that; otherwise
\* every non-freed buffer is at the floor.
C5_BudgetInvariant ==
    ~threw =>
       IF RLe(FloorUse(Pic), RInt(memoryBudget))
       THEN RLe(memoryUse, RInt(memoryBudget))
       ELSE Lowerable(Pic) = {}

\* C6: between operations memoryUse is the base (compositing buffer and two
\* rasterizers) plus the reserved state memory of every non-freed buffer of
\* buffers and mergedBuffers.
C6_MemoryAccounting ==
    ~threw =>
       memoryUse = RAdd(RInt(BaseMemory),
                        RSum([id \in NonFreed(Pic) |->
                                 getMemoryNeededForReservingStates(buf[id])]))

\* C7: stayWithinMemoryBudget lowers no undo state budget below 1, and changes
\* neither an event log nor the stack nor the merged buffers; it only lowers
\* budgets and memoryUse.
C7_StayWithinBudgetFrame ==
    [][op' = "stayWithinMemoryBudget" =>
          /\ buffers' = buffers /\ mergedBuffers' = mergedBuffers
          /\ DOMAIN buf' = DOMAIN buf
          /\ RLe(memoryUse', memoryUse)
          /\ \A id \in DOMAIN buf :
                /\ buf'[id].events = buf[id].events
                /\ buf'[id].freed = buf[id].freed
                /\ buf'[id].mergedTo = buf[id].mergedTo
                /\ RLe(buf'[id].undoStateBudget, buf[id].undoStateBudget)
                /\ \/ buf'[id].undoStateBudget = buf[id].undoStateBudget
                   \/ RLe(RInt(1), buf'[id].undoStateBudget)]_vars

\* C8: a pass of stayWithinMemoryBudget that has to free memory lowers by
\* exactly one the budget of a buffer of greatest bufferFreeingPriority
\* among the non-freed buffers (of the stack and merged) with a budget above 1,
\* and the loop ends only with memoryUse <= memoryBudget - requestedFreeBytes
\* or with no such buffer left.
C8_SelectsMaxPriority ==
    \A r \in RequestedFreeBytes :
       (~threw /\ RLt(RInt(0), NeedToFree(Pic, RInt(r))) /\ Lowerable(Pic) # {}) =>
          LET Q == stayWithinMemoryBudgetPass(Pic)
              F == stayWithinMemoryBudget(Pic, RInt(r))
          IN /\ ~Q.threw
             /\ \E id \in Lowerable(Pic) :
                   /\ \A other \in Lowerable(Pic) :
                         RLe(bufferFreeingPriority(buf[other]),
                             bufferFreeingPriority(buf[id]))
                   /\ Q.buf = [buf EXCEPT ![id].undoStateBudget = RSub(@, RInt(1))]
             /\ ~F.threw
             /\ \/ ~RLt(RInt(0), NeedToFree(F, RInt(r)))
                \/ Lowerable(F) = {}


\* ------------------------------------------------------- undoLatest claims
\* the events undoLatest has to choose from, and the one it has to choose
ActiveNotUndone == {e \in PictureEvents : e.sid = activeSid /\ ~e.undone}
LatestActive == CHOOSE e \in ActiveNotUndone :
                   \A other \in ActiveNotUndone : other.sessionEventId <= e.sessionEventId
UndoLatestOps == {"undoLatest", "undoLatest(false)"}

\* C9: when undoLatest returns an event, it is the event of the greatest
\* sessionEventId among the events of activeSid that are not undone, in the logs
\* of the buffers of the stack and of the merged buffers; its undone flag is
\* set and no other undone flag changes. When it returns null no flag changes.
C9_UndoLatestTarget ==
    [][(op' \in UndoLatestOps /\ ~threw') =>
          IF ret'.kind = "event"
          THEN /\ ActiveNotUndone # {}
               /\ ret'.ev = [LatestActive EXCEPT !.undone = TRUE]
               /\ Undone(Pic)' = Undone(Pic) \cup
                                    {<<LatestActive.sid, LatestActive.sessionEventId>>}
          ELSE /\ ret' = RetNull
               /\ Undone(Pic)' = Undone(Pic)]_vars

\* undoLatest has undone an event of a merged buffer while the other session
\* holds an event that is not undone and has a greater sessionEventId
C9_Witness ==
    /\ op \in UndoLatestOps /\ ret.kind = "event"
    /\ \E id \in MergedIds : \E i \in 0..(Len(buf[id].events) - 1) :
          At(buf[id].events, i) = ret.ev
    /\ \E e \in PictureEvents :
          e.sid # activeSid /\ ~e.undone /\ e.sessionEventId > ret.ev.sessionEventId

\* the non-removed buffers of the stack
StackNotRemoved == {id \in StackIds : ~isRemoved(buf[id])}
\* the event undoLatest has to choose is the creation event of the only
\* non-removed buffer of the stack
GuardApplies ==
    /\ ActiveNotUndone # {}
    /\ \E id \in StackIds :
          /\ StackNotRemoved = {id}
          /\ At(buf[id].events, 0) = LatestActive

\* C10: undoLatest with keepLastBuffer true or omitted leaves a non-removed
\* buffer in the stack when there was one, and when the event to undo is the
\* creation event of the last non-removed buffer it returns null and
\* changes nothing.
C10_KeepLastBuffer ==
    [][op' = "undoLatest" =>
          /\ ~threw'
          /\ StackNotRemoved # {} => StackNotRemoved' # {}
          /\ GuardApplies =>
                /\ ret' = RetNull
                /\ UNCHANGED <<buffers, mergedBuffers, buf, memoryUse, memoryBudget,
                               activeSid, activeSessionEventId>>]_vars

\* the buffer whose log holds the latest event of the active session that is
\* not undone is removed (still in the stack) or merged (in mergedBuffers)
LatestHolderRemovedOrMerged ==
    \/ Holder(LatestActive) \in MergedIds
    \/ isRemoved(buf[Holder(LatestActive)])

\* C11: undoLatest returns null and changes no undone flag, nor the stack,
\* nor mergedBuffers, when the latest event of the active session that is not
\* undone is a bufferMerge event in the log of a buffer that is removed or
\* merged.
C11_UndoLatestSkipsMerge ==
    [][(/\ op' \in UndoLatestOps
        /\ ActiveNotUndone # {}
        /\ LatestActive.eventType = "bufferMerge"
        /\ LatestHolderRemovedOrMerged) =>
          /\ ~threw'
          /\ ret' = RetNull
          /\ Undone(Pic)' = Undone(Pic)
          /\ buffers' = buffers
          /\ mergedBuffers' = mergedBuffers]_vars

\* ------------------------------------------- Picture.create and the modes
\* the bytes a rasterizer of a picture of one pixel takes, by constructor
DoubleBufferedRasterizerBytes == 6
CanvasRasterizerBytes == 0

Modes == {"webgl", "no-texdata-webgl", "no-float-webgl", "canvas"}
\* what the page gives: glUtils.supportsTextureUnits(4), whether
\* glUtils.initGl returns a context, whether the float texture extension is
\* there, and the modes whose rasterizer passes checkSanity
Hosts == [supportsTextureUnits : BOOLEAN, initGl : BOOLEAN,
          extensionTextureFloat : BOOLEAN, sane : SUBSET Modes]

usesWebGl(mode) == mode \in {"webgl", "no-float-webgl", "no-texdata-webgl"}

\* getMemoryBytes of the rasterizer createRasterizer() makes in the mode
RasterizerMemoryBytes(mode) ==
    CASE mode \in {"webgl", "no-texdata-webgl"} -> RasterizerBytes
      [] mode = "no-float-webgl" -> DoubleBufferedRasterizerBytes
      [] OTHER -> CanvasRasterizerBytes

\* the picture object at the start of the constructor
PictureFields(mode) ==
    [mode |-> mode, memoryUse |-> CompositingBytes,
     currentEventRasterizer |-> "none", genericRasterizer |-> "none",
     initialized |-> FALSE]

\* initRasterizers: initialized stands for its return value
initRasterizers(pic, host) ==
    IF pic.mode \notin host.sane
    THEN [pic EXCEPT !.currentEventRasterizer = "freed", !.initialized = FALSE]
    ELSE [pic EXCEPT !.currentEventRasterizer = "live",
                     !.genericRasterizer = "live",
                     !.memoryUse = @ + 2 * RasterizerMemoryBytes(pic.mode),
                     !.initialized = TRUE]

\* setupGLState: initialized stands for its return value
setupGLState(pic, host) ==
    IF pic.mode \in {"webgl", "no-texdata-webgl"} /\ ~host.extensionTextureFloat
    THEN [pic EXCEPT !.initialized = FALSE]
    ELSE initRasterizers(pic, host)

ModeUndefinedIfNot(pic) ==
    IF pic.initialized THEN pic ELSE [pic EXCEPT !.mode = "undefined"]

\* new Picture(id, boundsRect, bitmapScale, mode)
PictureConstructor(mode, host) ==
    IF usesWebGl(mode)
    THEN IF ~host.initGl THEN [PictureFields(mode) EXCEPT !.mode = "undefined"]
         ELSE ModeUndefinedIfNot(setupGLState(PictureFields(mode), host))
    ELSE IF mode = "canvas"
    THEN initRasterizers(PictureFields(mode), host)
    ELSE [PictureFields(mode) EXCEPT !.mode = "undefined"]

NullPicture == [mode |-> "null"]

\* the body of the loop of Picture.create for modesToTry[i]
CreateTry(mode, host) ==
    IF host.supportsTextureUnits \/ mode = "canvas"
    THEN IF PictureConstructor(mode, host).mode = "undefined" THEN NullPicture
         ELSE PictureConstructor(mode, host)
    ELSE NullPicture

RECURSIVE CreateLoop(_, _, _, _)
CreateLoop(modesToTry, host, i, pic) ==
    IF i < Len(modesToTry) /\ pic = NullPicture
    THEN CreateLoop(modesToTry, host, i + 1, CreateTry(At(modesToTry, i), host))
    ELSE pic

\* Picture.create(id, width, height, bitmapScale, modesToTry)
PictureCreate(modesToTry, host) == CreateLoop(modesToTry, host, 0, NullPicture)

\* --------------------------------------------------- serialize and parse
\* Picture.formatVersion
FormatVersion == 1
\* the header line of a picture of one pixel
HeaderLine == <<"picture", "version", FormatVersion, 1, 1>>

\* PictureEvent.serialize: the line of an event, its fields in a fixed order,
\* the undone flag as 0 or 1. serialize() stores the insertion point of a
\* buffer in its first event, so the line of that event carries it.
EventLine(e, insertionPoint) ==
    <<e.eventType, e.sid, e.sessionEventId, IF e.undone THEN 1 ELSE 0,
      e.bufferId, e.fromIndex, e.toIndex, insertionPoint>>

\* PictureEvent.parse: the event of a line
ParseEventLine(line) ==
    Event(line[1], line[2], line[3], line[4] = 1, line[5], line[6], line[7])
LineInsertionPoint(line) == line[8]

\* the lines of the events of one buffer, in log order
BufferLines(b) ==
    [j \in 1..Len(b.events) |->
        EventLine(b.events[j], IF j = 1 THEN b.insertionPoint ELSE 0)]

\* the lines of the buffers list[i..], in list order
RECURSIVE ListLines(_, _, _)
ListLines(P, list, i) ==
    IF i >= Len(list) THEN <<>>
    ELSE BufferLines(P.buf[At(list, i)]) \o ListLines(P, list, i + 1)

\* serialize() reads events[0] of every buffer: a TypeError on an empty log
serializeThrows(P) ==
    \E id \in {At(P.buffers, i) : i \in 0..(Len(P.buffers) - 1)} \cup
              {At(P.mergedBuffers, i) : i \in 0..(Len(P.mergedBuffers) - 1)} :
        Len(P.buf[id].events) = 0

\* serialize(): the header, the merged buffers, the buffers of the stack
serialize(P) ==
    <<HeaderLine>> \o ListLines(P, P.mergedBuffers, 0) \o ListLines(P, P.buffers, 0)

\* the picture Picture.parse starts from: what the constructor made, with
\* moveBufferInternal replaced by an empty function
ParsedStart(created, budget) ==
    [buffers |-> <<>>, mergedBuffers |-> <<>>, buf |-> <<>>,
     memoryUse |-> RInt(created.memoryUse), memoryBudget |-> budget,
     activeSid |-> 0, activeSessionEventId |-> 0,
     threw |-> FALSE, ret |-> RetVoid, moveBufferInternalOverridden |-> TRUE]

\* pushEvent of a parsed event. The mergedBuffer of a parsed merge event is
\* a dummy that pushEvent replaces by this.buffers[mergedBufferIndex]: it is
\* undefined when the merged buffer is not in the stack, and
\* PictureBuffer.pushEvent cannot apply a merge event that is not undone
\* without its merged buffer.
parsePushEvent(P, currentId, event) ==
    IF event.eventType = "bufferMerge" /\ findBufferIndex(P.buffers, event.bufferId) = -1
    THEN IF findBuffer(P, currentId) = NoBuffer \/ ~event.undone THEN Throw(P)
         ELSE BufferPushEvent(P, currentId, event)
    ELSE pushEvent(P, currentId, event)

RECURSIVE parseLoop(_, _, _, _)
\* after pushEvent took the picture to P1: currentId becomes the id of the
\* last buffer of the stack
parseLoopNext(P1, lines, i) ==
    IF P1.threw THEN P1
    ELSE IF Len(P1.buffers) = 0 THEN Throw(P1)
    ELSE parseLoop(P1, lines, i + 1, At(P1.buffers, Len(P1.buffers) - 1))

\* the loop of Picture.parse over the lines after the header
parseLoop(P, lines, i, currentId) ==
    IF i >= Len(lines) THEN P
    ELSE parseLoopNext(parsePushEvent(P, currentId, ParseEventLine(At(lines, i))), lines, i)

\* the insertion point the first event of the buffer was parsed with
ParsedInsertionPoint(lines, e) ==
    LineInsertionPoint(
        At(lines, CHOOSE i \in 1..(Len(lines) - 1) :
                      /\ ParseEventLine(At(lines, i)) = e
                      /\ \A j \in 1..(i - 1) : ParseEventLine(At(lines, j)) # e))

\* the end of Picture.parse: the insertion points are set from the first
\* events and the picture gets the moveBufferInternal of the prototype back
parseFinish(P, lines) ==
    IF P.threw THEN P
    ELSE IF serializeThrows(P) THEN Throw(P)
    ELSE [P EXCEPT
            !.buf = [id \in DOMAIN P.buf |->
                        IF findBuffer(P, id) = NoBuffer THEN P.buf[id]
                        ELSE [P.buf[id] EXCEPT !.insertionPoint =
                                 ParsedInsertionPoint(lines, At(P.buf[id].events, 0))]],
            !.moveBufferInternalOverridden = FALSE]

\* Picture.parse(id, serialization, bitmapScale, modesToTry) of a
\* serialization without metadata: pic.parsedVersion = version is a TypeError
\* when Picture.create returned null
NullParsed == [threw |-> TRUE, ret |-> RetVoid, created |-> NullPicture]
parseInto(created, lines, budget) ==
    IF created = NullPicture THEN NullParsed
    ELSE parseFinish(parseLoop(ParsedStart(created, budget), lines, 1, -1), lines)
parse(lines, modesToTry, host, budget) ==
    parseInto(PictureCreate(modesToTry, host), lines, memoryBudget)

\* a page on which every mode works
GoodHost == [supportsTextureUnits |-> TRUE, initGl |-> TRUE,
             extensionTextureFloat |-> TRUE, sane |-> Modes]

\* Picture.resize(pic, bitmapScale): the picture parsed from the
\* serialization of pic, in the mode of pic
resize(P) == parse(serialize(P), <<"webgl">>, GoodHost, P.memoryBudget)

\* ------------------------------------------- Picture.create, Picture.parse
MaxModes == 2
ModeLists == UNION {[1..n -> Modes] : n \in 0..MaxModes}

Made(call, modesToTry, host, lines, pic) ==
    [call |-> call, modesToTry |-> modesToTry, host |-> host, lines |-> lines, pic |-> pic]

\* the page calls a static function: the picture is left alone
Called(name) ==
    /\ op' = name
    /\ UNCHANGED <<buffers, mergedBuffers, buf, memoryUse, memoryBudget, activeSid,
                   activeSessionEventId, threw, ret, nCreated, mergeIndex, rt, pending, anim,
                   layer>>

\* the static calls do not depend on each other: one per behaviour
MaxStaticCalls == 1
StaticCalls == IF made = NoneMade THEN 0 ELSE 1

\* Picture.create(id, width, height, bitmapScale, modesToTry)
Create(modesToTry, host) ==
    /\ StaticCalls < MaxStaticCalls
    /\ made' = Made("create", modesToTry, host, <<>>, PictureCreate(modesToTry, host))
    /\ Called("Picture.create")

\* Picture.parse(id, pic.serialize(), bitmapScale, modesToTry)
Parse(modesToTry, host) ==
    /\ StaticCalls < MaxStaticCalls
    /\ ~serializeThrows(Pic)
    /\ made' = Made("parse", modesToTry, host, serialize(Pic),
                    parse(serialize(Pic), modesToTry, host, memoryBudget))
    /\ Called("Picture.parse")

MaxCreateEvents == 1
NextCreate ==
    \/ \E modesToTry \in ModeLists, host \in Hosts : Create(modesToTry, host)
    \/ \E modesToTry \in ModeLists, host \in Hosts : Parse(modesToTry, host)
    \/ \E id \in BufferIds :
          StaticCalls = 0 /\ nCreated < MaxCreateEvents /\ AddBuffer(id, FALSE)

SpecCreate == InitStack /\ [][NextCreate]_vars

\* what the claims call a mode whose initialization succeeds
ModeSucceeds(mode, host) ==
    /\ mode \in host.sane
    /\ usesWebGl(mode) =>
         /\ host.supportsTextureUnits /\ host.initGl
         /\ mode \in {"webgl", "no-texdata-webgl"} => host.extensionTextureFloat
FirstSucceeding(modesToTry, host) ==
    {i \in 1..Len(modesToTry) :
        /\ ModeSucceeds(modesToTry[i], host)
        /\ \A j \in 1..(i - 1) : ~ModeSucceeds(modesToTry[j], host)}

\* C15: Picture.parse returns null, and does not throw, when Picture.create
\* returns null for every mode of modesToTry.
C15_ParseReturnsNull ==
    (made.call = "parse" /\ PictureCreate(made.modesToTry, made.host) = NullPicture)
        => ~made.pic.threw

\* C16: Picture.create returns a picture initialized in the first mode of
\* modesToTry that succeeds, with the memory of its two rasterizers added,
\* and null exactly when no listed mode succeeds; a mode whose rasterizer
\* fails checkSanity never is the mode of the returned picture.
C16_CreateFirstUsableMode ==
    made.call = "create" =>
        /\ (made.pic = NullPicture) <=> (FirstSucceeding(made.modesToTry, made.host) = {})
        /\ made.pic # NullPicture =>
             /\ made.pic.mode \in made.host.sane
             /\ \A i \in FirstSucceeding(made.modesToTry, made.host) :
                    /\ made.pic.mode = made.modesToTry[i]
                    /\ made.pic.memoryUse =
                         CompositingBytes + 2 * RasterizerMemoryBytes(made.modesToTry[i])

\* ------------------------------------------------ serialize() and resize
\* Picture.resize(pic, bitmapScale) when serialize() throws
resizeOf(P) == IF serializeThrows(P) THEN NullParsed ELSE resize(P)

\* pic.serialize()
Serialize ==
    /\ StaticCalls < MaxStaticCalls
    /\ ~serializeThrows(Pic)
    /\ made' = Made("serialize", <<>>, GoodHost, serialize(Pic), NullPicture)
    /\ Called("serialize")

\* Picture.resize(pic, bitmapScale)
Resize ==
    /\ StaticCalls < MaxStaticCalls
    /\ made' = Made("resize", <<"webgl">>, GoodHost,
                    IF serializeThrows(Pic) THEN <<>> ELSE serialize(Pic), resizeOf(Pic))
    /\ Called("Picture.resize")

RECURSIVE getEventCountFrom(_, _)
\* the loop of getEventCount from index i of this.buffers
getEventCountFrom(P, i) ==
    IF i >= Len(P.buffers) THEN 0
    ELSE Len(P.buf[At(P.buffers, i)].events) + getEventCountFrom(P, i + 1)

\* getEventCount()
getEventCount(P) == getEventCountFrom(P, 0)

\* pic.getEventCount()
GetEventCount ==
    /\ StaticCalls < MaxStaticCalls
    /\ made' = Made("getEventCount", <<>>, GoodHost, <<>>, [count |-> getEventCount(Pic)])
    /\ Called("getEventCount")

MaxSerialEvents == 4
\* the picture is built by one session, then serialized or resized once
NextSerial ==
    \/ \E id \in BufferIds :
          StaticCalls = 0 /\ nCreated < MaxSerialEvents /\ AddBuffer(id, FALSE)
    \/ \E id \in BufferIds :
          StaticCalls = 0 /\ nCreated < MaxSerialEvents /\ RemoveBuffer(id, FALSE, FALSE)
    \/ \E id \in BufferIds, toIndex \in 0..(MaxBuffers - 1) :
          StaticCalls = 0 /\ nCreated < MaxSerialEvents /\ MoveBuffer(id, toIndex, FALSE)
    \/ \E i \in 0..(MaxBuffers - 1), t \in BufferIds :
          StaticCalls = 0 /\ nCreated < MaxSerialEvents /\ MergeBuffer(i, t, FALSE, FALSE)
    \/ \E t \in BufferIds :
          StaticCalls = 0 /\ nCreated < MaxSerialEvents /\ PushBrush("brush", t, FALSE, FALSE)
    \/ \E seid \in SessionEventIds :
          StaticCalls = 0 /\ HeldUndone(0, seid, FALSE) /\ UndoEventSessionId(0, seid)
    \/ \E seid \in SessionEventIds :
          StaticCalls = 0 /\ HeldUndone(0, seid, TRUE) /\ RedoEventSessionId(0, seid)
    \/ Serialize
    \/ Resize
    \/ GetEventCount

SpecSerial == InitStack /\ [][NextSerial]_vars

\* the ids of the events of a log, with their kinds and undone flags
LogOf(P, id) ==
    [j \in 1..Len(P.buf[id].events) |->
        <<P.buf[id].events[j].eventType, P.buf[id].events[j].sid,
          P.buf[id].events[j].sessionEventId, P.buf[id].events[j].undone>>]
IdSet(list) == {At(list, i) : i \in 0..(Len(list) - 1)}

\* C13: Picture.parse of the serialization of a picture succeeds and gives a
\* picture with the same stack in the same order, the same merged buffers,
\* and in every buffer a log of the same events: kinds, (sid,
\* sessionEventId), undone flags, in the same order.
C13_ParseSerializeRoundTrip ==
    op = "Picture.resize" =>
        /\ ~made.pic.threw
        /\ made.pic.buffers = buffers
        /\ IdSet(made.pic.mergedBuffers) = IdSet(mergedBuffers)
        /\ \A id \in IdSet(buffers) \cup IdSet(mergedBuffers) :
               /\ id \in DOMAIN made.pic.buf
               /\ LogOf(made.pic, id) = LogOf(Pic, id)

\* the positions of the lines of the event e in the serialization
LinesOf(lines, e) == {k \in 2..Len(lines) : ParseEventLine(lines[k]) = e}
\* the events of the log of a buffer, by position
LogEvent(id, j) == buf[id].events[j]

\* every line of the event e comes before every line of the event f
Before(lines, e, f) ==
    \A h \in LinesOf(lines, e) : \A k \in LinesOf(lines, f) : h < k
\* every event of the log of buffer x comes before every event of that of y
LogBefore(lines, x, y) ==
    \A i \in 1..Len(buf[x].events) : \A j \in 1..Len(buf[y].events) :
        Before(lines, LogEvent(x, i), LogEvent(y, j))

\* C14: serialize() gives the header first, then every event of every buffer
\* exactly once: the merged buffers in the order of mergedBuffers before the
\* buffers of the stack in stack order, each log in its order.
C14_SerializeOrder ==
    op = "serialize" =>
        /\ made.lines[1] = HeaderLine
        /\ Len(made.lines) = 1 + Cardinality(AllEvents)
        /\ \A id \in IdSet(buffers) \cup IdSet(mergedBuffers) :
             \A j \in 1..Len(buf[id].events) :
                /\ Cardinality(LinesOf(made.lines, LogEvent(id, j))) = 1
                /\ \A i \in 1..(j - 1) : Before(made.lines, LogEvent(id, i), LogEvent(id, j))
        /\ \A m \in IdSet(mergedBuffers), a \in IdSet(buffers) :
               LogBefore(made.lines, m, a)
        /\ \A list \in {buffers, mergedBuffers} :
             \A x \in 1..Len(list), y \in 1..Len(list) :
                x < y => LogBefore(made.lines, list[x], list[y])

\* ------------------------------------------- events by id, moveEvent
\* moveEvent after the search of the source log gave the index i
moveEventRemoved(P, sourceBufferId, i) ==
    IF i >= 0 THEN BufferRemoveEventIndex(P, sourceBufferId, i) ELSE P

\* moveEvent(targetBufferId, sourceBufferId, event)
moveEvent(P, targetBufferId, sourceBufferId, event) ==
    IF findBuffer(P, sourceBufferId) = NoBuffer THEN Throw(P)
    ELSE pushEvent(
            moveEventRemoved(P, sourceBufferId,
                eventIndexBySessionId(P.buf[sourceBufferId], event.sid,
                                      event.sessionEventId)),
            targetBufferId, event)

\* the page moves a brush event of the log of the source buffer
MoveEvent(targetBufferId, sourceBufferId, i) ==
    /\ targetBufferId \in KnownIds
    /\ sourceBufferId \in KnownIds
    /\ i \in 0..(Len(buf[sourceBufferId].events) - 1)
    /\ At(buf[sourceBufferId].events, i).eventType \in GenericTypes
    /\ Becomes(moveEvent(Pic, targetBufferId, sourceBufferId,
                         At(buf[sourceBufferId].events, i)),
               "moveEvent", At(buf[sourceBufferId].events, i).sid,
               At(buf[sourceBufferId].events, i).sessionEventId)
    /\ UNCHANGED <<mergeIndex, pending>>

MaxByIdEvents == 4
\* the session event ids the events of the picture can have
ByIdEventIds == 0..(MaxByIdEvents - 1)
\* one session builds the picture; undo, redo and remove get any ids
NextEvents ==
    \/ \E id \in BufferIds : nCreated < MaxByIdEvents /\ AddBuffer(id, FALSE)
    \/ \E id \in BufferIds : nCreated < MaxByIdEvents /\ RemoveBuffer(id, FALSE, FALSE)
    \/ \E i \in 0..(MaxBuffers - 1), t \in BufferIds :
          nCreated < MaxByIdEvents /\ MergeBuffer(i, t, FALSE, FALSE)
    \/ \E t \in BufferIds, insert \in BOOLEAN :
          nCreated < MaxByIdEvents /\ PushBrush("brush", t, FALSE, insert)
    \/ \E t \in BufferIds, s \in BufferIds, i \in 0..(MaxByIdEvents - 1) : MoveEvent(t, s, i)
    \/ \E keepLastBuffer \in BOOLEAN : UndoLatest(keepLastBuffer)
    \/ \E seid \in ByIdEventIds : UndoEventSessionId(0, seid)
    \/ \E seid \in ByIdEventIds : RedoEventSessionId(0, seid)
    \/ \E seid \in ByIdEventIds : RemoveEventSessionId(0, seid)

SpecEvents == InitStack /\ [][NextEvents]_vars

\* no log of the picture holds an event with these ids
NotHeld(sid, sessionEventId) ==
    \A e \in PictureEvents : ~(e.sid = sid /\ e.sessionEventId = sessionEventId)
\* the call left the logs, the stack, the merged buffers and memoryUse alone
PictureUnchanged ==
    /\ buf' = buf
    /\ buffers' = buffers
    /\ mergedBuffers' = mergedBuffers
    /\ memoryUse' = memoryUse

\* C12: with ids that no log of the picture holds, undoEventSessionId returns
\* null, redoEventSessionId and removeEventSessionId return false, none of
\* them throws and the picture is unchanged; undoLatest returns null when
\* the active session has no event that is not undone.
C12_NotFoundSentinels ==
    [][/\ \A seid \in SessionEventIds :
            /\ (op' = "undoEventSessionId" /\ NotHeld(0, seid)
                    /\ UndoEventSessionId(0, seid)) =>
                  (~threw' /\ ret' = RetNull /\ PictureUnchanged)
            /\ (op' = "redoEventSessionId" /\ NotHeld(0, seid)
                    /\ RedoEventSessionId(0, seid)) =>
                  (~threw' /\ ret' = RetBool(FALSE) /\ PictureUnchanged)
            /\ (op' = "removeEventSessionId" /\ NotHeld(0, seid)
                    /\ RemoveEventSessionId(0, seid)) =>
                  (~threw' /\ ret' = RetBool(FALSE) /\ PictureUnchanged)
       /\ \A keepLastBuffer \in BOOLEAN :
            (op' \in UndoLatestOps /\ ActiveNotUndone = {}
                /\ UndoLatest(keepLastBuffer)) =>
                (~threw' /\ ret' = RetNull /\ PictureUnchanged)]_vars

\* a removeEventSessionId that found no event, in a picture that holds events
\* and no merge event (which would be another reason for false)
C12_Witness ==
    /\ op = "removeEventSessionId"
    /\ ret = RetBool(FALSE)
    /\ ~threw
    /\ PictureEvents # {}
    /\ \A e \in PictureEvents : e.eventType # "bufferMerge"

\* C18: the first event of the log of every buffer of the picture, in the
\* stack or merged, is the bufferAdd event that created the buffer.
C18_FirstEventIsAdd ==
    \A id \in StackIds \cup MergedIds :
        /\ Len(buf[id].events) > 0
        /\ At(buf[id].events, 0).eventType = "bufferAdd"
        /\ At(buf[id].events, 0).bufferId = id

\* the events of the log of a buffer
LogEvents(b) == {At(b.events, i) : i \in 0..(Len(b.events) - 1)}
\* the events that are in the log of buffer id before the step and not after
DeletedFrom(id) ==
    {e \in LogEvents(buf[id]) :
        \A f \in LogEvents(buf'[id]) :
            ~(f.sid = e.sid /\ f.sessionEventId = e.sessionEventId)}

\* C19: an event is deleted from a log only if it is undone when it is
\* deleted: it was undone before the call, or the call is a
\* removeEventSessionId that returns true, which undoes the event first; a
\* removeEventSessionId that returns false leaves the logs, the stack and
\* the merged buffers as they were; no other operation, moveEvent included,
\* deletes an event that is not undone.
C19_DeleteOnlyUndone ==
    [][/\ \A id \in DOMAIN buf : \A e \in DeletedFrom(id) :
            \/ e.undone
            \/ (op' = "removeEventSessionId" /\ ~threw' /\ ret' = RetBool(TRUE))
       /\ (op' = "removeEventSessionId" /\ ret' = RetBool(FALSE)) =>
            (buf' = buf /\ buffers' = buffers /\ mergedBuffers' = mergedBuffers)]_vars

\* the buffer is composited: in the stack, and neither removed nor merged
Composited(id) ==
    /\ id \in StackIds
    /\ id \notin MergedIds
    /\ Len(buf[id].events) > 0
    /\ ~isRemoved(buf[id])

\* C20: no buffer that is composited in the stack is freed: a freed buffer
\* is removed (a remove event that is not undone, or its add event undone) or
\* merged.
C20_FreedOnlyRemovedOrMerged ==
    \A id \in StackIds : Composited(id) => ~buf[id].freed

\* ------------------------------------------------ sessions, create and push
MaxPending == 2
MaxSessionEvents == 3

\* createBrushEvent(...): the event is returned to the page, not pushed
CreateBrushEvent ==
    /\ activeSessionEventId < MaxSessionEventId
    /\ Len(pending) < MaxPending
    /\ pending' = Append(pending, Event("brush", activeSid, activeSessionEventId, FALSE,
                                        NoBuffer, -1, -1))
    /\ Becomes(Created(Pic), "createBrushEvent", activeSid, activeSessionEventId)
    /\ UNCHANGED mergeIndex

\* pushEvent(targetBufferId, event) of an event createBrushEvent returned
PushPending(k, targetBufferId) ==
    /\ k \in 1..Len(pending)
    /\ targetBufferId \in KnownIds
    /\ Becomes(pushEvent(Pic, targetBufferId, pending[k]), "pushEvent",
               pending[k].sid, pending[k].sessionEventId)
    /\ pending' = [i \in 1..(Len(pending) - 1) |->
                      IF i < k THEN pending[i] ELSE pending[i + 1]]
    /\ UNCHANGED mergeIndex

\* two sessions take turns; events are created, then pushed
NextSession ==
    \/ \E sid \in Sids : sid # activeSid /\ SetActiveSession(sid)
    \/ \E id \in BufferIds :
          nCreated + Len(pending) < MaxSessionEvents /\ AddBuffer(id, FALSE)
    \/ nCreated + Len(pending) < MaxSessionEvents /\ CreateBrushEvent
    \/ \E k \in 1..MaxPending, t \in BufferIds : PushPending(k, t)
    \/ \E keepLastBuffer \in BOOLEAN : UndoLatest(keepLastBuffer)
    \/ \E sid \in Sids, seid \in SessionEventIds :
          HeldUndone(sid, seid, FALSE) /\ UndoEventSessionId(sid, seid)
    \/ \E sid \in Sids, seid \in SessionEventIds :
          HeldUndone(sid, seid, TRUE) /\ RedoEventSessionId(sid, seid)
    \/ \E sid \in Sids, seid \in SessionEventIds :
          (\E undone \in BOOLEAN : HeldUndone(sid, seid, undone))
          /\ RemoveEventSessionId(sid, seid)

SpecSession == InitStack /\ [][NextSession]_vars

\* the places of the logs of the picture: buffer id and index
LogPlaces ==
    {<<id, i>> : id \in StackIds \cup MergedIds, i \in 0..(MaxSessionEvents - 1)} \cap
    UNION {{<<id, i>> : i \in 0..(Len(buf[id].events) - 1)} : id \in StackIds \cup MergedIds}
PlaceKey(p) == <<At(buf[p[1]].events, p[2]).sid, At(buf[p[1]].events, p[2]).sessionEventId>>
UniqueEventIds == \A p \in LogPlaces : \A q \in LogPlaces : p # q => PlaceKey(p) # PlaceKey(q)
\* every event of the session in the picture has a smaller sessionEventId
NewerThanHeld(sid, sessionEventId) ==
    \A h \in PictureEvents : h.sid = sid => h.sessionEventId < sessionEventId

\* C17: after any interleaving of setActiveSession, create*Event, pushEvent,
\* undo, redo and removeEventSessionId no two events in the logs of the
\* picture have the same (sid, sessionEventId), and an event gets, when it is
\* created, a sessionEventId greater than that of every event of its session
\* in the picture.
C17_UniqueSessionEventIds ==
    [][/\ UniqueEventIds'
       /\ Len(pending') > Len(pending) =>
            NewerThanHeld(pending'[Len(pending')].sid,
                          pending'[Len(pending')].sessionEventId)
       /\ op' = "addBuffer" => NewerThanHeld(activeSid, activeSessionEventId)]_vars

RECURSIVE EventsIn(_)
\* the number of events in the logs of the buffers ids
EventsIn(ids) ==
    IF ids = {} THEN 0
    ELSE LET id == CHOOSE x \in ids : TRUE
         IN Len(buf[id].events) + EventsIn(ids \ {id})

\* C24: getEventCount() returns the number of events in the logs of all the
\* buffers of the picture, those of the stack and the merged ones, undone
\* events included.
C24_EventCount ==
    op = "getEventCount" => made.pic.count = EventsIn(StackIds \cup MergedIds)

\* the stack without the buffer id
StackWithout(stack, id) == SelectSeq(stack, LAMBDA x : x # id)
\* the last event of the log of buffer id
LastEvent(b) == At(b.events, Len(b.events) - 1)

\* C25: moveBuffer(movedId, toIndex) with toIndex an index of the stack leaves
\* the buffer at index toIndex, keeps the order of the other buffers, keeps
\* the stack a permutation of what it was, and appends the move event to the
\* log of the moved buffer.
C25_MoveBuffer ==
    [][\A id \in BufferIds : \A toIndex \in 0..(MaxBuffers - 1) :
          (op' = "moveBuffer" /\ MoveBuffer(id, toIndex, FALSE)) =>
             /\ ~threw'
             /\ At(buffers', toIndex) = id
             /\ StackWithout(buffers', id) = StackWithout(buffers, id)
             /\ Len(buffers') = Len(buffers)
             /\ \A x \in BufferIds : Occurrences(buffers', x) = Occurrences(buffers, x)
             /\ Len(buf'[id].events) = Len(buf[id].events) + 1
             /\ LastEvent(buf'[id]).eventType = "bufferMove"
             /\ LastEvent(buf'[id]).toIndex = toIndex
             /\ ~LastEvent(buf'[id]).undone]_vars

\* a moveBuffer took a buffer of a stack of three to another index
C25_Witness ==
    /\ op = "moveBuffer"
    /\ ~threw
    /\ Len(buffers) = 3
    /\ \E id \in StackIds :
          /\ Len(buf[id].events) > 0
          /\ LastEvent(buf[id]).eventType = "bufferMove"
          /\ LastEvent(buf[id]).fromIndex # LastEvent(buf[id]).toIndex
          /\ findBufferIndex(buffers, id) = LastEvent(buf[id]).toIndex

\* C27: a buffer a bufferAdd event created is in exactly one of buffers and
\* mergedBuffers, once: never in both, never in neither.
C27_NoBufferLost ==
    \A id \in DOMAIN buf :
        Occurrences(buffers, id) + Occurrences(mergedBuffers, id) = 1

\* the event the history rt is about, if a log of the picture holds it
RtEvents == {e \in PictureEvents : e.sid = rt.sid /\ e.sessionEventId = rt.sessionEventId}

\* C28: the undo of a bufferMove event right after its push, with no other
\* change of the stack in between, gives the stack the order it had before
\* the move event was pushed.
C28_UndoMoveRestoresOrder ==
    (rt.stage = 2 /\ \E e \in RtEvents : e.eventType = "bufferMove" /\ e.undone)
        => buffers = rt.before

\* a move that changed the order of the stack was undone
C28_Witness ==
    /\ rt.stage = 2
    /\ ~threw
    /\ \E e \in RtEvents :
          e.eventType = "bufferMove" /\ e.undone /\ e.fromIndex # e.toIndex
    /\ rt.obs.stack # rt.before

\* C29: redoEventSessionId of an undone bufferMove event, after the push of
\* the event and its undo, puts the moved buffer back at the toIndex of the
\* event, where it was after the push.
C29_RedoMoveReapplies ==
    \A e \in RtEvents :
        (rt.stage = 3 /\ e.eventType = "bufferMove" /\ ~threw) =>
            /\ findBufferIndex(buffers, e.bufferId) = e.toIndex
            /\ buffers = rt.obs.stack

\* the event with these ids is in a log of the picture, undone or not
HeldOnly(sid, sessionEventId, undone) ==
    /\ ~NotHeld(sid, sessionEventId)
    /\ \A e \in PictureEvents :
          (e.sid = sid /\ e.sessionEventId = sessionEventId) => e.undone = undone

\* C30: undoEventSessionId of an event that is undone returns the event and
\* changes nothing; redoEventSessionId of an event that is not undone returns
\* true and changes nothing.
C30_UndoRedoIdempotent ==
    [][\A seid \in SessionEventIds :
          /\ (op' = "undoEventSessionId" /\ HeldOnly(0, seid, TRUE)
                 /\ UndoEventSessionId(0, seid)) =>
                /\ ~threw'
                /\ ret'.kind = "event"
                /\ ret'.ev.sid = 0 /\ ret'.ev.sessionEventId = seid /\ ret'.ev.undone
                /\ PictureUnchanged
          /\ (op' = "redoEventSessionId" /\ HeldOnly(0, seid, FALSE)
                 /\ RedoEventSessionId(0, seid)) =>
                (~threw' /\ ret' = RetBool(TRUE) /\ PictureUnchanged)]_vars

\* an event was pushed, undone, and undone again
C30_Witness ==
    /\ rt.stage = 5
    /\ ~threw
    /\ ret.kind = "event"
    /\ \E e \in RtEvents : e.undone

\* ---- animated playback: animate, its frame callback, stopAnimating ----

\* animationPos is kept in halves: 1.0 is AnimationPosOne, and animate is
\* called with speed 0.5
AnimationPosOne == 2
AnimationSpeed == 1

\* PictureEvent.isRasterized: the events drawn with a rasterizer, not the
\* buffer stack changes
isRasterized(event) == event.eventType \in GenericTypes

\* this.eventToAnimate(index): the index counts the events after the create
\* event of the buffers of the stack that are not removed; null (found is
\* FALSE) when the stack holds fewer
RECURSIVE eventToAnimateFrom(_, _, _)
eventToAnimateFrom(P, i, index) ==
    IF i >= Len(P.buffers)
    THEN [found |-> FALSE, threw |-> FALSE, event |-> NoEvent, bufferIndex |-> 0]
    ELSE IF isRemovedThrows(P.buf[At(P.buffers, i)])
    THEN [found |-> FALSE, threw |-> TRUE, event |-> NoEvent, bufferIndex |-> 0]
    ELSE IF isRemoved(P.buf[At(P.buffers, i)])
    THEN eventToAnimateFrom(P, i + 1, index)
    ELSE IF index < Len(P.buf[At(P.buffers, i)].events) - 1
    THEN [found |-> TRUE, threw |-> FALSE,
          event |-> At(P.buf[At(P.buffers, i)].events, index + 1), bufferIndex |-> i]
    ELSE eventToAnimateFrom(P, i + 1, index - (Len(P.buf[At(P.buffers, i)].events) - 1))
eventToAnimate(P, index) == eventToAnimateFrom(P, 0, index)

\* the while loop and the end of getNextEventIndexToAnimate, j incremented
\* already: reading .event of null is a TypeError
RECURSIVE getNextEventIndexToAnimateFrom(_, _, _)
getNextEventIndexToAnimateFrom(P, j, eta) ==
    IF eta.threw \/ (j < P.anim.totalEvents /\ ~eta.found)
    THEN [threw |-> TRUE, eventIndex |-> j, bufferIndex |-> 0]
    ELSE IF j < P.anim.totalEvents /\ (eta.event.undone \/ ~isRasterized(eta.event))
    THEN getNextEventIndexToAnimateFrom(P, j + 1, eventToAnimate(P, j + 1))
    ELSE [threw |-> FALSE, eventIndex |-> j,
          bufferIndex |-> IF eta.found THEN eta.bufferIndex ELSE 0]
getNextEventIndexToAnimate(P, j) ==
    getNextEventIndexToAnimateFrom(P, j + 1, eventToAnimate(P, j + 1))

\* new Animator(animationPos): its own rasterizer, and the next event to
\* animate
Animator(indices, animationPos) ==
    [rasterizer |-> "live", frees |-> 0, eventIndex |-> indices.eventIndex,
     bufferIndex |-> indices.bufferIndex, animationPos |-> animationPos]

\* createBuffer(createEvent, false) of animate: a buffer without undo states
\* that holds its create event, outside the stack and outside memoryUse; of
\* is the id of the buffer of the stack it was made for
AnimationBuffer(id) ==
    [events |-> <<Event("bufferAdd", -1, -1, FALSE, -1, -1, -1)>>, frees |-> 0, of |-> id]

\* the loop of animate over this.buffers, from buffer i on
RECURSIVE animateBuffersFrom(_, _)
animateBuffersFrom(P, i) ==
    IF i >= Len(P.buffers) THEN P
    ELSE IF isRemovedThrows(P.buf[At(P.buffers, i)]) THEN Throw(P)
    ELSE IF isRemoved(P.buf[At(P.buffers, i)]) THEN animateBuffersFrom(P, i + 1)
    ELSE animateBuffersFrom(
             [P EXCEPT !.anim.totalEvents = @ + Len(P.buf[At(P.buffers, i)].events) - 1,
                       !.anim.animationBuffers = Append(@, AnimationBuffer(At(P.buffers, i)))],
             i + 1)

\* the loop of animate that makes the animators, from animator i on, j being
\* the variable of the closure; the result carries the j it ends with
RECURSIVE animateAnimatorsFrom(_, _, _, _, _)
animateAnimatorsFrom(P, simultaneousStrokes, i, j, indices) ==
    IF i >= simultaneousStrokes THEN [pic |-> P, j |-> j]
    ELSE IF indices.threw THEN [pic |-> Throw(P), j |-> j]
    ELSE animateAnimatorsFrom(
             [P EXCEPT !.anim.animators =
                           Append(@, Animator(indices,
                                              0 - ((i * AnimationPosOne) \div simultaneousStrokes)))],
             simultaneousStrokes, i + 1, indices.eventIndex,
             IF i + 1 >= simultaneousStrokes THEN indices
             ELSE getNextEventIndexToAnimate(P, indices.eventIndex))

\* animate, the stack not empty, after the loop over this.buffers
animateStart(P, strokes, callBack, made1) ==
    IF made1.pic.threw THEN made1.pic
    ELSE [made1.pic EXCEPT !.ret = RetBool(TRUE),
                            !.anim.scheduled =
                                Append(@, [kind |-> "frame", simultaneousStrokes |-> strokes,
                                           j |-> made1.j, callBack |-> callBack])]

animateStrokes(P, simultaneousStrokes, callBack) ==
    LET strokes == Min(simultaneousStrokes, P.anim.totalEvents) IN
    animateStart(P, strokes, callBack,
                 IF strokes = 0 THEN [pic |-> P, j |-> -1]
                 ELSE animateAnimatorsFrom(P, strokes, 0, -1, getNextEventIndexToAnimate(P, -1)))

animateFilled(P, simultaneousStrokes, callBack) ==
    IF P.threw THEN P
    ELSE animateStrokes([P EXCEPT !.anim.animatorsDefined = TRUE, !.anim.animators = <<>>],
                        simultaneousStrokes, callBack)

\* animate without the return of a call made while animating
animateAgain(P, simultaneousStrokes, callBack) ==
    IF Len(P.buffers) = 0
    THEN [P EXCEPT !.ret = RetBool(TRUE), !.anim.animating = TRUE,
                   !.anim.scheduled =
                       Append(@, [kind |-> "timeout", simultaneousStrokes |-> simultaneousStrokes,
                                  j |-> -1, callBack |-> callBack])]
    ELSE animateFilled(
             animateBuffersFrom([P EXCEPT !.anim.animating = TRUE,
                                          !.anim.totalEvents = 0,
                                          !.anim.animationBuffersState = "array",
                                          !.anim.animationBuffers = <<>>], 0),
             simultaneousStrokes, callBack)

\* animate(simultaneousStrokes, speed, animationFinishedCallBack)
animate(P, simultaneousStrokes, callBack) ==
    IF P.anim.animating THEN [P EXCEPT !.ret = RetBool(TRUE)]
    ELSE IF Len(P.buffers) = 0
    THEN [P EXCEPT !.ret = RetBool(TRUE), !.anim.animating = TRUE,
                   !.anim.scheduled =
                       Append(@, [kind |-> "timeout", simultaneousStrokes |-> simultaneousStrokes,
                                  j |-> -1, callBack |-> callBack])]
    ELSE animateFilled(
             animateBuffersFrom([P EXCEPT !.anim.animating = TRUE,
                                          !.anim.totalEvents = 0,
                                          !.anim.animationBuffersState = "array",
                                          !.anim.animationBuffers = <<>>], 0),
             simultaneousStrokes, callBack)

\* display(): nothing while animating, else the buffers are composited
display(P) ==
    IF P.anim.animating THEN P ELSE [P EXCEPT !.anim.displays = @ + 1]

\* rasterizer.free() and rasterizer = null of the animators whose rasterizer
\* is not null
freeAnimator(a) ==
    IF a.rasterizer = "null" THEN a
    ELSE [a EXCEPT !.rasterizer = "null", !.frees = @ + 1]

\* stopAnimating(): this.animators.length and this.animationBuffers.length
\* are TypeErrors on undefined and on null
stopAnimating(P) ==
    IF ~P.anim.animating THEN P
    ELSE IF ~P.anim.animatorsDefined THEN Throw([P EXCEPT !.anim.animating = FALSE])
    ELSE IF P.anim.animationBuffersState # "array"
    THEN Throw([P EXCEPT !.anim.animating = FALSE,
                         !.anim.animators = [i \in DOMAIN @ |-> freeAnimator(@[i])]])
    ELSE display([P EXCEPT !.anim.animating = FALSE,
                           !.anim.animators = [i \in DOMAIN @ |-> freeAnimator(@[i])],
                           !.anim.animationBuffers =
                               [i \in DOMAIN @ |-> [@[i] EXCEPT !.frees = @ + 1]],
                           !.anim.animationBuffersState = "null"])

\* the push of animationFrame, made to the buffer of the stack
animationFramePushToStack(P, i, j, pos, event) ==
    [pic |-> [P EXCEPT !.buf[At(P.buffers, At(P.anim.animators, i).bufferIndex)].events =
                           Append(@, event),
                       !.anim.animators[i + 1].animationPos = pos - AnimationPosOne,
                       !.anim.animators[i + 1].eventIndex = P.anim.totalEvents],
     j |-> j]

\* animationFrame, animator i whose animationPos reached 1.0: the event is
\* pushed to the animation buffer and the animator takes the next event
animationFramePush(P, i, j, pos, event) ==
    LET a == At(P.anim.animators, i) IN
    IF \/ P.anim.animationBuffersState # "array"
       \/ a.bufferIndex >= Len(P.anim.animationBuffers)
    THEN [pic |-> Throw(P), j |-> j]
    ELSE LET pushed == [P EXCEPT !.anim.animationBuffers[a.bufferIndex + 1].events =
                                     Append(@, event)]
             indices == getNextEventIndexToAnimate(pushed, j)
         IN IF indices.threw THEN [pic |-> Throw(pushed), j |-> j]
            ELSE [pic |-> [pushed EXCEPT !.anim.animators[i + 1] =
                               [a EXCEPT !.eventIndex = indices.eventIndex,
                                         !.bufferIndex = indices.bufferIndex,
                                         !.animationPos = pos - AnimationPosOne]],
                  j |-> indices.eventIndex]

\* animationFrame, animator i whose eventIndex is below totalEvents
animationFrameAdvance(P, i, j, pos, eta) ==
    IF pos <= 0 THEN [pic |-> P, j |-> j]
    ELSE IF eta.threw \/ ~eta.found THEN [pic |-> Throw(P), j |-> j]
    ELSE IF pos >= AnimationPosOne THEN animationFramePush(P, i, j, pos, eta.event)
    ELSE [pic |-> P, j |-> j]

\* the loop of animationFrame over the animators, from animator i on;
\* that.animators[i] of an animator that does not exist is undefined, and
\* reading its eventIndex a TypeError
RECURSIVE animationFrameFrom(_, _, _, _, _)
animationFrameFrom(P, simultaneousStrokes, i, j, finishedRasterizers) ==
    IF i >= simultaneousStrokes
    THEN [pic |-> P, j |-> j, finishedRasterizers |-> finishedRasterizers]
    ELSE IF ~P.anim.animatorsDefined \/ i >= Len(P.anim.animators)
    THEN [pic |-> Throw(P), j |-> j, finishedRasterizers |-> finishedRasterizers]
    ELSE IF At(P.anim.animators, i).eventIndex < P.anim.totalEvents
    THEN LET pos == At(P.anim.animators, i).animationPos + AnimationSpeed
             r == animationFrameAdvance(
                      [P EXCEPT !.anim.animators[i + 1].animationPos = pos], i, j, pos,
                      eventToAnimate(P, At(P.anim.animators, i).eventIndex))
         IN IF r.pic.threw
            THEN [pic |-> r.pic, j |-> r.j, finishedRasterizers |-> finishedRasterizers]
            ELSE animationFrameFrom(r.pic, simultaneousStrokes, i + 1, r.j,
                                    finishedRasterizers)
    ELSE animationFrameFrom([P EXCEPT !.anim.animators[i + 1] = freeAnimator(@)],
                            simultaneousStrokes, i + 1, j, finishedRasterizers + 1)

\* the end of animationFrame: another frame is requested, or the animation
\* is stopped and animationFinishedCallBack called
animationFrameEnd(c, r) ==
    IF r.pic.threw THEN r.pic
    ELSE IF r.finishedRasterizers # c.simultaneousStrokes
    THEN [r.pic EXCEPT !.anim.scheduled = Append(@, [c EXCEPT !.j = r.j])]
    ELSE LET stopped == stopAnimating(r.pic) IN
         IF stopped.threw THEN stopped
         ELSE [stopped EXCEPT !.anim.finishedCallBacks = Append(@, c.callBack)]

\* animationFrame of the animate call that scheduled c
animationFrame(P, c) ==
    IF ~P.anim.animating THEN P
    ELSE animationFrameEnd(c, animationFrameFrom(P, c.simultaneousStrokes, 0, c.j, 0))

\* the function animate hands to setTimeout when the stack is empty
animateTimeout(P, c) ==
    [P EXCEPT !.anim.animating = FALSE,
              !.anim.finishedCallBacks = Append(@, c.callBack)]

\* how many times the page calls animate, and the simultaneousStrokes it asks for
MaxAnimateCalls == 2
MaxStrokes == 2
MaxAnimEvents == 4

\* animate(simultaneousStrokes, 0.5, callBack), the call-back function of
\* the n-th call being n
Animate(simultaneousStrokes) ==
    /\ anim.calls < MaxAnimateCalls
    /\ Becomes([animate(Pic, simultaneousStrokes, anim.calls)
                    EXCEPT !.anim.calls = anim.calls + 1,
                           !.anim.started = IF anim.animating THEN @ ELSE Append(@, anim.calls)],
               "animate", -1, -1)
    /\ UNCHANGED <<mergeIndex, pending>>

\* stopAnimating() called by the page; stopped keeps the animations the page
\* stopped, by the number of the animate call that started them
StopAnimating ==
    /\ Becomes([stopAnimating(Pic)
                    EXCEPT !.anim.stopped = IF anim.animating /\ anim.started # <<>>
                                            THEN @ \cup {anim.started[Len(anim.started)]}
                                            ELSE @],
               "stopAnimating", -1, -1)
    /\ UNCHANGED <<mergeIndex, pending>>

\* the k-th of the scheduled functions
Scheduled(k) == anim.scheduled[k]
Fired(k) ==
    [Pic EXCEPT !.anim.scheduled =
                    [i \in 1..(Len(@) - 1) |-> IF i < k THEN @[i] ELSE @[i + 1]]]

\* the browser runs a frame callback that requestAnimationFrame scheduled
AnimationFrame(k) ==
    /\ k \in DOMAIN anim.scheduled
    /\ Scheduled(k).kind = "frame"
    /\ Becomes(animationFrame(Fired(k), Scheduled(k)), "animationFrame", -1, -1)
    /\ UNCHANGED <<mergeIndex, pending>>

\* the browser runs the function setTimeout scheduled
AnimateTimeout(k) ==
    /\ k \in DOMAIN anim.scheduled
    /\ Scheduled(k).kind = "timeout"
    /\ Becomes(animateTimeout(Fired(k), Scheduled(k)), "animateTimeout", -1, -1)
    /\ UNCHANGED <<mergeIndex, pending>>

\* A page that draws, undoes and plays the picture back: the frames of
\* animate interleave with the calls of the page.
NextAnim ==
    \/ \E id \in BufferIds : nCreated < MaxAnimEvents /\ AddBuffer(id, FALSE)
    \/ \E t \in BufferIds : nCreated < MaxAnimEvents /\ PushBrush("brush", t, FALSE, FALSE)
    \/ \E id \in BufferIds : nCreated < MaxAnimEvents /\ RemoveBuffer(id, FALSE, FALSE)
    \/ UndoLatest(TRUE)
    \/ \E simultaneousStrokes \in 1..MaxStrokes : Animate(simultaneousStrokes)
    \/ StopAnimating
    \/ \E k \in 1..MaxAnimateCalls : AnimationFrame(k)
    \/ \E k \in 1..MaxAnimateCalls : AnimateTimeout(k)

SpecAnim == InitStack /\ [][NextAnim]_vars

\* the events of the logs of the picture, by buffer
Logs == [id \in DOMAIN buf |-> buf[id].events]
\* the state the picture commits: the logs, undone flags included, the
\* stack and the merged buffers
Committed == <<Logs, buffers, mergedBuffers>>
AnimationOps == {"animate", "animationFrame", "animateTimeout"}

\* C21: animated playback never changes the committed state of the picture:
\* animate() and every frame it schedules leave the logs of the buffers of
\* buffers and mergedBuffers (their events, the order of the events, the
\* undone flags), the stack and the merged buffers as they were; the events
\* animated are pushed to the animation buffers only.
C21_AnimationKeepsCommittedState ==
    [][op' \in AnimationOps => Committed' = Committed]_vars

\* a frame pushed an event of the picture to an animation buffer
C21_Witness ==
    /\ op = "animationFrame"
    /\ ~threw
    /\ anim.animating
    /\ \E k \in DOMAIN anim.animationBuffers :
          /\ Len(anim.animationBuffers[k].events) > 1
          /\ anim.animationBuffers[k].events[2] \in AllEvents

\* every rasterizer of an animator and every animation buffer was freed
\* once
FreedOnce ==
    /\ \A k \in DOMAIN anim.animators :
          anim.animators[k].rasterizer = "null" /\ anim.animators[k].frees = 1
    /\ \A k \in DOMAIN anim.animationBuffers : anim.animationBuffers[k].frees = 1

\* C22: stopAnimating called between frames while animating is true, right
\* after animate() on a picture without buffers included, returns without
\* error, sets animating to false and leaves every rasterizer of an animator
\* and every animation buffer freed exactly once; a frame callback that
\* fires while animating is false does no work.
C22_StopAnimating ==
    [][/\ (op' = "stopAnimating" /\ anim.animating) =>
              (~threw' /\ ~anim'.animating /\ FreedOnce')
       /\ (op' = "animationFrame" /\ ~anim.animating) =>
              (~threw' /\ Committed' = Committed
               /\ [anim' EXCEPT !.scheduled = anim.scheduled] = anim)]_vars

\* C23: animate() called while an animation is in progress returns true and
\* starts nothing: the animators, the animation buffers, totalEvents and the
\* scheduled callbacks with their animationFinishedCallBack stay as they
\* were, and so does the picture.
C23_AnimateWhileAnimating ==
    [][(op' = "animate" /\ anim.animating) =>
           /\ ret' = RetBool(TRUE)
           /\ ~threw'
           /\ anim' = [anim EXCEPT !.calls = @ + 1]
           /\ Committed' = Committed
           /\ memoryUse' = memoryUse]_vars

\* the second call of animate came while the animation of the first was in
\* progress: the only callback scheduled is a frame of the first call
C23_Witness ==
    /\ op = "animate"
    /\ anim.animating
    /\ anim.calls = 2
    /\ anim.finishedCallBacks = <<>>
    /\ Len(anim.scheduled) = 1
    /\ anim.scheduled[1].callBack = 0
    /\ anim.scheduled[1].kind = "frame"
    /\ Len(anim.animators) > 0

\* ---- one PictureBuffer: its log, its bitmap and its undo states ----

\* the events of the log from index k on, those not undone, drawn in order
\* to the bitmap
RECURSIVE LayerReplay(_, _, _)
LayerReplay(events, k, bitmap) ==
    IF k >= Len(events) THEN bitmap
    ELSE LayerReplay(events, k + 1,
                     IF At(events, k).undone THEN bitmap ELSE Append(bitmap, At(events, k).id))

\* the replay from scratch, and the replay from an undo state: an undo state
\* of index k holds the bitmap after the events before index k
ReplayFromScratch(L) == LayerReplay(L.events, 0, <<>>)
ReplayFrom(L, undoState) == LayerReplay(L.events, undoState.index, undoState.bitmap)
EmptyState == [index |-> 0, bitmap |-> <<>>]

\* the nearest undo state at or before index k, the empty bitmap if none
NearestUndoState(L, k) ==
    LET at == {n \in DOMAIN L.undoStates : L.undoStates[n].index <= k} IN
    IF at = {} THEN EmptyState
    ELSE L.undoStates[CHOOSE n \in at :
                          \A m \in at : L.undoStates[m].index <= L.undoStates[n].index]

\* the undo states after index k are invalidated, and the bitmap is replayed
\* from the nearest undo state that is left
LayerInvalidateAfter(L, k) ==
    LET kept == SelectSeq(L.undoStates, LAMBDA u : u.index <= k) IN
    [L EXCEPT !.undoStates = kept,
              !.invalidated = @ + (Len(L.undoStates) - Len(kept)),
              !.bitmap = ReplayFrom(L, NearestUndoState([L EXCEPT !.undoStates = kept], k))]

\* the undo state victim is evicted when the buffer holds more undo states
\* than its budget
LayerEvict(L, victim) ==
    IF Len(L.undoStates) <= L.undoStateBudget THEN L
    ELSE [L EXCEPT !.undoStates =
                       [n \in 1..(Len(@) - 1) |->
                           IF n < Min(victim, Len(@)) THEN @[n] ELSE @[n + 1]]]

\* PictureBuffer.pushEvent: the event is appended and drawn; an undo state
\* is saved when more than undoStateInterval events came after the last
LayerSaveUndoState(L, victim) ==
    IF Len(L.events) - NearestUndoState(L, Len(L.events)).index > UndoStateInterval
    THEN LayerEvict([L EXCEPT !.undoStates =
                                  Append(@, [index |-> Len(L.events), bitmap |-> L.bitmap])],
                    victim)
    ELSE L
LayerPushEvent(L, event, victim) ==
    LayerSaveUndoState([L EXCEPT !.events = Append(@, event),
                                 !.bitmap = IF event.undone THEN @ ELSE Append(@, event.id)],
                       victim)

\* an undoEventIndex that keeps the undo states and the bitmap as they are
LayerUndoEventIndexKeepsStates(L, i) == [L EXCEPT !.events[i + 1].undone = TRUE]

\* PictureBuffer.undoEventIndex and redoEventIndex
LayerUndoEventIndex(L, i) ==
    LayerInvalidateAfter([L EXCEPT !.events[i + 1].undone = TRUE], i)
LayerRedoEventIndex(L, i) ==
    LayerInvalidateAfter([L EXCEPT !.events[i + 1].undone = FALSE], i)

\* PictureBuffer.setUndoStateBudget
LayerSetUndoStateBudget(L, budget, victim) ==
    LayerEvict([L EXCEPT !.undoStateBudget = budget], victim)

\* stayWithinMemoryBudget lowers the budget of the buffer it selected by one
stayWithinMemoryBudgetLowerLayer(L, victim) ==
    LayerSetUndoStateBudget(L, L.undoStateBudget - 1, victim)

MaxLayerEvents == 7
LayerCalled(name) ==
    /\ op' = name
    /\ UNCHANGED <<buffers, mergedBuffers, buf, memoryUse, memoryBudget, activeSid,
                   activeSessionEventId, threw, ret, nCreated, mergeIndex, rt, pending,
                   made, anim>>

Victims == 1..(MaxLayerBudget + 1)

LayerPush(victim) ==
    /\ Len(layer.events) < MaxLayerEvents
    /\ layer' = LayerPushEvent(layer, [id |-> Len(layer.events), undone |-> FALSE], victim)
    /\ LayerCalled("buffer.pushEvent")

LayerUndo(i) ==
    /\ i < Len(layer.events)
    /\ ~At(layer.events, i).undone
    /\ layer' = LayerUndoEventIndex(layer, i)
    /\ LayerCalled("buffer.undoEventIndex")

LayerRedo(i) ==
    /\ i < Len(layer.events)
    /\ At(layer.events, i).undone
    /\ layer' = LayerRedoEventIndex(layer, i)
    /\ LayerCalled("buffer.redoEventIndex")

\* the pass of stayWithinMemoryBudget that selected the buffer
LayerLowerBudget(victim) ==
    /\ layer.undoStateBudget > 1
    /\ layer' = stayWithinMemoryBudgetLowerLayer(layer, victim)
    /\ LayerCalled("buffer.setUndoStateBudget")

\* One buffer under pushEvent, undo and redo of its events, and the lowering
\* of its undo state budget.
NextReplay ==
    \/ \E victim \in Victims : LayerPush(victim)
    \/ \E i \in 1..(MaxLayerEvents - 1) : LayerUndo(i)
    \/ \E i \in 1..(MaxLayerEvents - 1) : LayerRedo(i)
    \/ \E victim \in Victims : LayerLowerBudget(victim)

SpecReplay == InitStack /\ [][NextReplay]_vars

\* C26: in every state of a buffer reached by pushEvent, undo and redo, the
\* bitmap replayed from scratch (every event not undone, in order) equals
\* the bitmap replayed from each undo state the buffer retains, and the
\* bitmap the buffer holds, whatever the undo state budget is and after
\* stayWithinMemoryBudget lowered it.
C26_ReplayFromUndoStates ==
    /\ layer.bitmap = ReplayFromScratch(layer)
    /\ \A n \in DOMAIN layer.undoStates :
          ReplayFrom(layer, layer.undoStates[n]) = ReplayFromScratch(layer)

\* an event before an undo state was undone, the undo state invalidated,
\* the budget lowered, and an undo state is retained whose replay skips an
\* undone event
C26_Witness ==
    /\ layer.invalidated > 0
    /\ layer.undoStateBudget < MaxLayerBudget
    /\ \E n \in DOMAIN layer.undoStates :
          \E i \in 0..(Len(layer.events) - 1) :
             /\ At(layer.events, i).undone
             /\ i >= layer.undoStates[n].index

\* the browser runs every callback that was scheduled
SpecAnimLive ==
    /\ SpecAnim
    /\ WF_vars(\E k \in 1..MaxAnimateCalls : AnimationFrame(k))
    /\ WF_vars(\E k \in 1..MaxAnimateCalls : AnimateTimeout(k))

\* how many times animationFinishedCallBack of the animate call c was called
FinishedCalls(c) ==
    Cardinality({n \in DOMAIN anim.finishedCallBacks : anim.finishedCallBacks[n] = c})
StartedCalls == {anim.started[n] : n \in DOMAIN anim.started}

\* C34: an animation that animate() started and that the page does not stop
\* eventually finishes, its animationFinishedCallBack called; the callback is
\* never called twice, and never for an animation the page stopped.
C34_AnimationFinishes ==
    /\ \A c \in 0..(MaxAnimateCalls - 1) :
          (c \in StartedCalls) ~> (c \in anim.stopped \/ FinishedCalls(c) = 1)
    /\ [](\A c \in 0..(MaxAnimateCalls - 1) : FinishedCalls(c) <= 1)
    /\ [](\A c \in anim.stopped : FinishedCalls(c) = 0)

\* the animate call just made started an animation
AnimateStarted ==
    /\ op = "animate"
    /\ ~threw
    /\ anim.animating
    /\ anim.started # <<>>
    /\ anim.started[Len(anim.started)] = anim.calls - 1

\* C35: right after animate() started an animation, whatever the stack is
\* (a removed buffer before one that is not removed included), the
\* bufferIndex of every animator that has an event to animate is an index of
\* animationBuffers, and the animation buffer there was made for the buffer
\* that holds the event.
C35_AnimationBufferOfOwner ==
    AnimateStarted =>
        \A n \in DOMAIN anim.animators :
            anim.animators[n].eventIndex < anim.totalEvents =>
                /\ anim.animators[n].bufferIndex < Len(anim.animationBuffers)
                /\ At(anim.animationBuffers, anim.animators[n].bufferIndex).of =
                       At(buffers, eventToAnimate(Pic, anim.animators[n].eventIndex).bufferIndex)

\* the k-th scheduled callback is of an animation older than another one
\* that has a callback scheduled: the page stopped it
Stale(k) ==
    \E m \in DOMAIN anim.scheduled : anim.scheduled[m].callBack > anim.scheduled[k].callBack

\* C36: a frame callback of an animation that was stopped, fired after a
\* new animate() started another animation, does no work: it leaves the
\* animators, the animation buffers and the scheduled callbacks of the new
\* animation as they are and does not throw.
C36_StaleFrameDoesNoWork ==
    [][\A k \in 1..MaxAnimateCalls :
          (op' = "animationFrame" /\ k \in DOMAIN anim.scheduled /\ Stale(k)
           /\ AnimationFrame(k)) =>
              (~threw' /\ anim' = Fired(k).anim)]_vars

\* C31: in every reachable state every buffer of buffers and of
\* mergedBuffers has an undoStateBudget of at least 1, the buffer that
\* pushEvent of a bufferAdd event that is not undone just created included,
\* also when the memory budget is exhausted.
C31_BudgetAtLeastOne ==
    \A id \in KnownIds : RLe(RInt(1), buf[id].undoStateBudget)

\* a pass of the loop of stayWithinMemoryBudget that reports freeing
\* possible lowers the budget of some buffer
PassLowers(P) ==
    (/\ \A k \in 0..(SlotCount(P) - 1) : ~SlotThrows(P, k)
     /\ \E k \in 0..(SlotCount(P) - 1) : SlotIsCandidate(P, k)) =>
        \E id \in DOMAIN P.buf :
            RLt(stayWithinMemoryBudgetPass(P).buf[id].undoStateBudget, P.buf[id].undoStateBudget)

\* C32: stayWithinMemoryBudget returns without throwing for every picture
\* and every requestedFreeBytes, more merged buffers than buffers of the
\* stack included, and every pass of its loop that finds a buffer to free
\* from lowers the budget of some buffer.
C32_StayWithinBudgetTerminates ==
    [][op' = "stayWithinMemoryBudget" => (~threw' /\ PassLowers(Pic))]_vars

LatestIsMergeInMerged ==
    /\ LatestActive.eventType = "bufferMerge"
    /\ \E id \in MergedIds :
          \E i \in 0..(Len(buf[id].events) - 1) : At(buf[id].events, i) = LatestActive

====
